---- MODULE Spec2Model ----
(***************************************************************************)
(* The commit-deduplication and changelog persistence pipeline of the      *)
(* AI changelog generator: the submit-changelog handlers (the variant with *)
(* the in-transaction dedup re-check and the variant that stores entries,  *)
(* file changes and entry/commit links), the relational store behind them  *)
(* with the unique constraint on processed_commits.hash, the fetch-commits *)
(* handlers and the generate-changelog handlers.                           *)
(*                                                                         *)
(* Strings are TLA+ strings; JavaScript's undefined is the empty tuple and *)
(* a present value v is the one-element tuple <<v>>.                       *)
(***************************************************************************)
EXTENDS Integers, Sequences, FiniteSets, TLC

\* ------------------------------------------------------------------ bounds

\* Longest commit array of a submit request.
MaxBatch == 2

\* Longest entries array of a submit request.
MaxEntries == 2

\* Requests in flight: each process is one HTTP request to a submit handler.
Procs == {"p1", "p2", "p3"}

\* The processes of the one-request-at-a-time specification.
SeqProcs == {"p1", "p2"}

\* Commit hashes the source host knows.
Hashes == {"a1", "a2", "a3"}

\* ------------------------------------------------------- string utilities

Absent == <<>>

Some(v) == <<v>>

\* String.prototype.includes
Includes(s, k) ==
  \E i \in 1..(Len(s) - Len(k) + 1) : SubSeq(s, i, i + Len(k) - 1) = k

\* String.prototype.startsWith
StartsWith(s, k) == Len(s) >= Len(k) /\ SubSeq(s, 1, Len(k)) = k

\* String.prototype.endsWith
EndsWith(s, k) == Len(s) >= Len(k) /\ SubSeq(s, Len(s) - Len(k) + 1, Len(s)) = k

\* Position of the first occurrence of k in s, 0 when there is none.
IndexOf(s, k) ==
  IF Includes(s, k)
    THEN CHOOSE i \in 1..(Len(s) - Len(k) + 1) :
           /\ SubSeq(s, i, i + Len(k) - 1) = k
           /\ \A j \in 1..(i - 1) : SubSeq(s, j, j + Len(k) - 1) # k
    ELSE 0

\* String.prototype.replace with a string pattern: the first occurrence only.
ReplaceFirst(s, k, r) ==
  LET i == IndexOf(s, k)
  IN IF i = 0 THEN s
     ELSE SubSeq(s, 1, i - 1) \o r \o SubSeq(s, i + Len(k), Len(s))

\* String.prototype.split with a one-character separator.
RECURSIVE Split(_, _)
Split(s, sep) ==
  LET i == IndexOf(s, sep)
  IN IF i = 0 THEN <<s>>
     ELSE <<SubSeq(s, 1, i - 1)>> \o Split(SubSeq(s, i + 1, Len(s)), sep)

\* Array.prototype.join
RECURSIVE Join(_, _)
Join(parts, sep) ==
  IF Len(parts) = 0 THEN ""
  ELSE IF Len(parts) = 1 THEN parts[1]
  ELSE parts[1] \o sep \o Join(Tail(parts), sep)

Whitespace == {" ", "\t", "\n", "\r"}

\* line.trim() is the empty string
IsBlank(s) == \A i \in 1..Len(s) : SubSeq(s, i, i) \in Whitespace

\* String.prototype.trim
RECURSIVE Trim(_)
Trim(s) ==
  IF Len(s) = 0 THEN s
  ELSE IF SubSeq(s, 1, 1) \in Whitespace THEN Trim(SubSeq(s, 2, Len(s)))
  ELSE IF SubSeq(s, Len(s), Len(s)) \in Whitespace THEN Trim(SubSeq(s, 1, Len(s) - 1))
  ELSE s

LowerChar(c) ==
  CASE c = "A" -> "a" [] c = "B" -> "b" [] c = "C" -> "c" [] c = "D" -> "d"
    [] c = "E" -> "e" [] c = "F" -> "f" [] c = "G" -> "g" [] c = "H" -> "h"
    [] c = "I" -> "i" [] c = "J" -> "j" [] c = "K" -> "k" [] c = "L" -> "l"
    [] c = "M" -> "m" [] c = "N" -> "n" [] c = "O" -> "o" [] c = "P" -> "p"
    [] c = "Q" -> "q" [] c = "R" -> "r" [] c = "S" -> "s" [] c = "T" -> "t"
    [] c = "U" -> "u" [] c = "V" -> "v" [] c = "W" -> "w" [] c = "X" -> "x"
    [] c = "Y" -> "y" [] c = "Z" -> "z" [] OTHER -> c

\* String.prototype.toLowerCase, one half of the string after the other
RECURSIVE ToLowerCase(_)
ToLowerCase(s) ==
  IF Len(s) <= 1 THEN LowerChar(s)
  ELSE LET half == Len(s) \div 2
       IN ToLowerCase(SubSeq(s, 1, half)) \o ToLowerCase(SubSeq(s, half + 1, Len(s)))

\* Array.prototype.filter
FilterSeq(s, Keep(_)) == SelectSeq(s, Keep)

\* The elements of a sequence.
Range(s) == {s[i] : i \in 1..Len(s)}

\* Sequences over S of length at most n.
SeqsUpTo(S, n) == UNION {[1..k -> S] : k \in 0..n}

\* ---------------------------------------------- metadata keyword detectors

\* A detector whose Filtering group has no keyword "search".
detectComponentFilterAndSort(content) ==
  LET lowerContent == ToLowerCase(content)
      has(k) == Includes(lowerContent, k)
  IN IF has("analytics") \/ has("stats") \/ has("metrics") THEN Some("Analytics")
     ELSE IF has("auth") \/ has("login") \/ has("sign in") THEN Some("Authentication")
     ELSE IF has("api") \/ has("integration") \/ has("connect") THEN Some("API Integration")
     ELSE IF has("content") \/ has("editor") \/ has("cms") THEN Some("Content Management")
     ELSE IF has("dashboard") THEN Some("Dashboards")
     ELSE IF has("visualiz") \/ has("chart") \/ has("graph") THEN Some("Data Visualization")
     ELSE IF has("email") \/ has("notification") \/ has("alert") THEN Some("Email Notifications")
     ELSE IF has("filter") \/ has("sort") THEN Some("Filtering")
     ELSE IF has("performance") \/ has("speed") \/ has("optimize") THEN Some("Performance Optimization")
     ELSE IF has("report") \/ has("export") THEN Some("Reporting")
     ELSE IF has("search") THEN Some("Search")
     ELSE IF has("security") \/ has("protect") \/ has("privacy") THEN Some("Security Features")
     ELSE IF has("user experience") \/ has("ux") \/ has("workflow") THEN Some("User Experience")
     ELSE IF has("ui") \/ has("interface") \/ has("display") THEN Some("User Interface")
     ELSE Absent

\* detectComponent of the submit handler.
detectComponent(content) ==
  LET lowerContent == ToLowerCase(content)
      has(k) == Includes(lowerContent, k)
  IN IF has("analytics") \/ has("stats") \/ has("metrics") THEN Some("Analytics")
     ELSE IF has("auth") \/ has("login") \/ has("sign in") THEN Some("Authentication")
     ELSE IF has("api") \/ has("integration") \/ has("connect") THEN Some("API Integration")
     ELSE IF has("content") \/ has("editor") \/ has("cms") THEN Some("Content Management")
     ELSE IF has("dashboard") THEN Some("Dashboards")
     ELSE IF has("visualiz") \/ has("chart") \/ has("graph") THEN Some("Data Visualization")
     ELSE IF has("email") \/ has("notification") \/ has("alert") THEN Some("Email Notifications")
     ELSE IF has("filter") \/ has("sort") \/ has("search") THEN Some("Filtering")
     ELSE IF has("performance") \/ has("speed") \/ has("optimize") THEN Some("Performance Optimization")
     ELSE IF has("report") \/ has("export") THEN Some("Reporting")
     ELSE IF has("search") THEN Some("Search")
     ELSE IF has("security") \/ has("protect") \/ has("privacy") THEN Some("Security Features")
     ELSE IF has("user experience") \/ has("ux") \/ has("workflow") THEN Some("User Experience")
     ELSE IF has("ui") \/ has("interface") \/ has("display") THEN Some("User Interface")
     ELSE Absent

detectScope(content) ==
  LET lowerContent == ToLowerCase(content)
      has(k) == Includes(lowerContent, k)
  IN IF has("frontend") \/ has("ui") \/ has("interface") THEN Some("Frontend")
     ELSE IF has("backend") \/ has("api") \/ has("server") THEN Some("Backend")
     ELSE IF has("database") \/ has("schema") THEN Some("Database")
     ELSE IF has("infra") \/ has("deployment") THEN Some("Infrastructure")
     ELSE Absent

detectImpact(content) ==
  LET lowerContent == ToLowerCase(content)
      has(k) == Includes(lowerContent, k)
  IN IF has("major") \/ has("significant") \/ has("redesign") \/ has("overhaul")
       THEN "major"
     ELSE IF has("bugfix") \/ has("typo") \/ has("minor fix") \/ has("small")
       THEN "patch"
     ELSE "minor"

\* The copies of the detectors in the generate handlers and in the dev page.
detectComponentGenerate(content) ==
  LET lowerContent == ToLowerCase(content)
      has(k) == Includes(lowerContent, k)
  IN IF has("analytics") \/ has("stats") \/ has("metrics") THEN Some("Analytics")
     ELSE IF has("auth") \/ has("login") \/ has("sign in") THEN Some("Authentication")
     ELSE IF has("api") \/ has("integration") \/ has("connect") THEN Some("API Integration")
     ELSE IF has("content") \/ has("editor") \/ has("cms") THEN Some("Content Management")
     ELSE IF has("dashboard") THEN Some("Dashboards")
     ELSE IF has("visualiz") \/ has("chart") \/ has("graph") THEN Some("Data Visualization")
     ELSE IF has("email") \/ has("notification") \/ has("alert") THEN Some("Email Notifications")
     ELSE IF has("filter") \/ has("sort") \/ has("search") THEN Some("Filtering")
     ELSE IF has("performance") \/ has("speed") \/ has("optimize") THEN Some("Performance Optimization")
     ELSE IF has("report") \/ has("export") THEN Some("Reporting")
     ELSE IF has("search") THEN Some("Search")
     ELSE IF has("security") \/ has("protect") \/ has("privacy") THEN Some("Security Features")
     ELSE IF has("user experience") \/ has("ux") \/ has("workflow") THEN Some("User Experience")
     ELSE IF has("ui") \/ has("interface") \/ has("display") THEN Some("User Interface")
     ELSE Absent

\* A detector that looks for the Search group first.
detectComponentSearchFirst(content) ==
  LET lowerContent == ToLowerCase(content)
      has(k) == Includes(lowerContent, k)
  IN IF has("search") THEN Some("Search")
     ELSE IF has("analytics") \/ has("stats") \/ has("metrics") THEN Some("Analytics")
     ELSE IF has("auth") \/ has("login") \/ has("sign in") THEN Some("Authentication")
     ELSE IF has("api") \/ has("integration") \/ has("connect") THEN Some("API Integration")
     ELSE IF has("content") \/ has("editor") \/ has("cms") THEN Some("Content Management")
     ELSE IF has("dashboard") THEN Some("Dashboards")
     ELSE IF has("visualiz") \/ has("chart") \/ has("graph") THEN Some("Data Visualization")
     ELSE IF has("email") \/ has("notification") \/ has("alert") THEN Some("Email Notifications")
     ELSE IF has("filter") \/ has("sort") \/ has("search") THEN Some("Filtering")
     ELSE IF has("performance") \/ has("speed") \/ has("optimize") THEN Some("Performance Optimization")
     ELSE IF has("report") \/ has("export") THEN Some("Reporting")
     ELSE IF has("search") THEN Some("Search")
     ELSE IF has("security") \/ has("protect") \/ has("privacy") THEN Some("Security Features")
     ELSE IF has("user experience") \/ has("ux") \/ has("workflow") THEN Some("User Experience")
     ELSE IF has("ui") \/ has("interface") \/ has("display") THEN Some("User Interface")
     ELSE Absent

detectComponentPage(content) ==
  LET lowerContent == ToLowerCase(content)
      has(k) == Includes(lowerContent, k)
  IN IF has("analytics") \/ has("stats") \/ has("metrics") THEN Some("Analytics")
     ELSE IF has("auth") \/ has("login") \/ has("sign in") THEN Some("Authentication")
     ELSE IF has("api") \/ has("integration") \/ has("connect") THEN Some("API Integration")
     ELSE IF has("content") \/ has("editor") \/ has("cms") THEN Some("Content Management")
     ELSE IF has("dashboard") THEN Some("Dashboards")
     ELSE IF has("visualiz") \/ has("chart") \/ has("graph") THEN Some("Data Visualization")
     ELSE IF has("email") \/ has("notification") \/ has("alert") THEN Some("Email Notifications")
     ELSE IF has("filter") \/ has("sort") \/ has("search") THEN Some("Filtering")
     ELSE IF has("performance") \/ has("speed") \/ has("optimize") THEN Some("Performance Optimization")
     ELSE IF has("report") \/ has("export") THEN Some("Reporting")
     ELSE IF has("search") THEN Some("Search")
     ELSE IF has("security") \/ has("protect") \/ has("privacy") THEN Some("Security Features")
     ELSE IF has("user experience") \/ has("ux") \/ has("workflow") THEN Some("User Experience")
     ELSE IF has("ui") \/ has("interface") \/ has("display") THEN Some("User Interface")
     ELSE Absent

\* A detector that looks for the patch keywords first.
detectImpactPatchFirst(content) ==
  LET lowerContent == ToLowerCase(content)
      has(k) == Includes(lowerContent, k)
  IN IF has("bugfix") \/ has("typo") \/ has("minor fix") \/ has("small")
       THEN "patch"
     ELSE IF has("major") \/ has("significant") \/ has("redesign") \/ has("overhaul")
       THEN "major"
     ELSE "minor"

detectImpactGenerate(content) ==
  LET lowerContent == ToLowerCase(content)
      has(k) == Includes(lowerContent, k)
  IN IF has("major") \/ has("significant") \/ has("redesign") \/ has("overhaul")
       THEN "major"
     ELSE IF has("bugfix") \/ has("typo") \/ has("minor fix") \/ has("small")
       THEN "patch"
     ELSE "minor"

detectImpactPage(content) ==
  LET lowerContent == ToLowerCase(content)
      has(k) == Includes(lowerContent, k)
  IN IF has("major") \/ has("significant") \/ has("redesign") \/ has("overhaul")
       THEN "major"
     ELSE IF has("bugfix") \/ has("typo") \/ has("minor fix") \/ has("small")
       THEN "patch"
     ELSE "minor"

\* ------------------------------------------------------------ the database

\* The tables of the schema; a transaction's uncommitted writes have the same
\* shape.  Rows carry the identifier their serial column gave them; of a serial
\* only its uniqueness is used, so an identifier is the inserting request and
\* the position of the row in it.
EmptyTables ==
  [changelogs |-> {}, changelogEntries |-> {}, processedCommits |-> {},
   fileChanges |-> {}, entryCommitMap |-> {}]

\* A merge that keeps only the changelogs of the second table set.
MergeTablesReplacing(a, b) ==
  [changelogs |-> b.changelogs,
   changelogEntries |-> a.changelogEntries \cup b.changelogEntries,
   processedCommits |-> a.processedCommits \cup b.processedCommits,
   fileChanges |-> a.fileChanges \cup b.fileChanges,
   entryCommitMap |-> a.entryCommitMap \cup b.entryCommitMap]

MergeTables(a, b) ==
  [changelogs |-> a.changelogs \cup b.changelogs,
   changelogEntries |-> a.changelogEntries \cup b.changelogEntries,
   processedCommits |-> a.processedCommits \cup b.processedCommits,
   fileChanges |-> a.fileChanges \cup b.fileChanges,
   entryCommitMap |-> a.entryCommitMap \cup b.entryCommitMap]

StoredHashes(tables) == {c.hash : c \in tables.processedCommits}

\* ------------------------------------------------------ requests and rows

validChangeTypes == {"Feature", "Update", "Fix", "Breaking", "Security"}

MonthNames ==
  <<"January", "February", "March", "April", "May", "June", "July",
    "August", "September", "October", "November", "December">>

MonthNumbers == <<"01", "02", "03", "04", "05", "06", "07", "08", "09", "10", "11", "12">>

\* new Date(date).toLocaleString('default', {month: 'long'}) + ", " +
\* new Date(date).getFullYear(), for an ISO date string read in UTC; anything
\* else is an Invalid Date.
TitleOfDate(date) ==
  IF /\ date # Absent
     /\ Len(date[1]) >= 7
     /\ \E m \in 1..12 : SubSeq(date[1], 6, 7) = MonthNumbers[m]
    THEN LET m == CHOOSE k \in 1..12 : SubSeq(date[1], 6, 7) = MonthNumbers[k]
         IN MonthNames[m] \o ", " \o SubSeq(date[1], 1, 4)
    ELSE "Invalid Date, NaN"

\* a || b of JavaScript for an optional number, string and boolean
OrNumber(opt, default) == IF opt = Absent THEN default ELSE IF opt[1] = 0 THEN default ELSE opt[1]

OrString(opt, default) == IF opt = Absent THEN default ELSE IF opt[1] = "" THEN default ELSE opt[1]

OrBoolean(opt, default) == IF opt = Absent THEN default ELSE IF opt[1] THEN TRUE ELSE default

\* determineComponent of the fetch handler: the component of a file path.
determineComponent(filePath) ==
  IF StartsWith(filePath, "src/app/api/") THEN "api"
  ELSE IF StartsWith(filePath, "src/app/components/") THEN "ui"
  ELSE IF StartsWith(filePath, "src/app/db/") THEN "database"
  ELSE IF Includes(filePath, "test") \/ Includes(filePath, "spec") THEN "tests"
  ELSE IF EndsWith(filePath, ".css") \/ EndsWith(filePath, ".scss") THEN "styles"
  ELSE IF Includes(filePath, "types") \/ EndsWith(filePath, ".d.ts") THEN "types"
  ELSE IF StartsWith(filePath, "docs/") THEN "documentation"
  ELSE "other"

\* What the source host's getCommit reports as the files of each commit.
DetailFilesOf(hash) ==
  CASE hash = "a1" ->
         <<[filename |-> "src/app/api/route.ts", additions |-> 3, deletions |-> 1,
            patch |-> Some("@@ -1 +1 @@")]>>
    [] hash = "a2" -> <<>>
    [] OTHER ->
         <<[filename |-> "src/app/db/schema.ts", additions |-> 2, deletions |-> 0,
            patch |-> Some("@@ -2 +2 @@")],
           [filename |-> "docs/logo.png", additions |-> 1, deletions |-> 4,
            patch |-> Absent]>>

\* The files of a commit as the enhanced fetch handler shapes them.
FilesOf(hash) ==
  LET detail == DetailFilesOf(hash)
  IN [j \in 1..Len(detail) |->
        [path |-> detail[j].filename, additions |-> detail[j].additions,
         deletions |-> detail[j].deletions,
         patch |-> OrString(detail[j].patch, ""),
         component |-> determineComponent(detail[j].filename)]]

MessageOf(hash) ==
  CASE hash = "a1" -> "Fix login bug"
    [] hash = "a2" -> "Add dark mode"
    [] OTHER -> "Improve search"

RECURSIVE SumOver(_, _)
SumOver(files, field) ==
  IF Len(files) = 0 THEN 0
  ELSE (IF field = "additions" THEN files[1].additions ELSE files[1].deletions)
       + SumOver(Tail(files), field)

StatsOf(files) ==
  [totalAdditions |-> SumOver(files, "additions"),
   totalDeletions |-> SumOver(files, "deletions"),
   filesChanged |-> Len(files)]

\* A commit as the dev page sends it back to the submit handler.
CommitOf(hash) ==
  [hash |-> hash, message |-> MessageOf(hash), date |-> "2025-03-14T09:00:00.000Z",
   files |-> FilesOf(hash), stats |-> StatsOf(FilesOf(hash))]

\* The entries a submit request can carry.
EntryPool ==
  { [content |-> "Added dashboard charts", component |-> Some("Dashboards"),
     scope |-> Absent, impact |-> Absent, isTechnical |-> Absent,
     isUserFacing |-> Absent, order |-> Absent, labels |-> Absent],
    [content |-> "Fixed login typo", component |-> Absent,
     scope |-> Some("Frontend"), impact |-> Some("patch"), isTechnical |-> Some(TRUE),
     isUserFacing |-> Some(FALSE), order |-> Some(1),
     labels |-> Some("[\"Authentication\"]")] }

EntryInputs == SeqsUpTo(EntryPool, MaxEntries)

ContentInput == "Improved search speed\n\nFixed small typo"

SubmitHashes == {"a1", "a2"}

BatchInputs == SeqsUpTo(SubmitHashes, MaxBatch)

DateInput == Some("2025-03-15T10:00:00.000Z")

RepoUrlInput == "https://github.com/owner/repo"

SubmitRequest(entries, content, isArray, batch, repoUrl, type, date) ==
  [entries |-> entries, content |-> content, commitsIsArray |-> isArray,
   commits |-> [i \in 1..Len(batch) |-> CommitOf(batch[i])],
   repoUrl |-> repoUrl, type |-> type, date |-> date]

\* The entries array and the commit array of the dev page's usual request.
UsualEntries ==
  <<[content |-> "Added dashboard charts", component |-> Some("Dashboards"),
     scope |-> Absent, impact |-> Some("minor"), isTechnical |-> Some(FALSE),
     isUserFacing |-> Some(TRUE), order |-> Some(0), labels |-> Absent],
    [content |-> "Improved search speed", component |-> Some("Filtering"),
     scope |-> Absent, impact |-> Some("minor"), isTechnical |-> Some(FALSE),
     isUserFacing |-> Some(TRUE), order |-> Some(1), labels |-> Absent]>>

UsualBatches == {<<"a1">>, <<"a1", "a2">>}

\* The bodies a submit handler is given: every entries array with the usual
\* batches, every batch with the usual entries, and the bodies that fail one
\* validation each.
SubmitInputs ==
  {SubmitRequest(e, Some(ContentInput), TRUE, b, RepoUrlInput, "Feature", DateInput) :
     e \in EntryInputs, b \in UsualBatches}
  \cup {SubmitRequest(UsualEntries, Some(ContentInput), TRUE, b, RepoUrlInput, "Feature",
                      DateInput) : b \in BatchInputs}
  \cup {SubmitRequest(e, Absent, TRUE, <<"a1">>, RepoUrlInput, "Fix", DateInput) :
          e \in {s \in EntryInputs : Len(s) <= 1}}
  \cup {SubmitRequest(<<>>, Some(""), TRUE, <<"a1">>, RepoUrlInput, "Feature", DateInput),
        SubmitRequest(<<>>, Some(ContentInput), FALSE, <<>>, RepoUrlInput, "Feature", DateInput),
        SubmitRequest(<<>>, Some(ContentInput), TRUE, <<"a1">>, "", "Feature", DateInput),
        SubmitRequest(<<>>, Some(ContentInput), TRUE, <<"a1">>, RepoUrlInput, "Chore", DateInput),
        SubmitRequest(<<>>, Some(ContentInput), TRUE, <<"a1">>, RepoUrlInput, "Feature", Absent)}

NoRequest == SubmitRequest(<<>>, Absent, FALSE, <<>>, "", "", Absent)

\* A response: the HTTP status and the error message of its body; stage names the
\* statement that failed when a statement of the transaction did.
NoStage == <<>>

NoResponse == [status |-> 0, error |-> "", stage |-> NoStage]

Ok == [status |-> 200, error |-> "", stage |-> NoStage]

Failed(status, message) == [status |-> status, error |-> message, stage |-> NoStage]

FailedAt(message, table, k) == [status |-> 500, error |-> message, stage |-> <<table, k>>]

AllProcessedMessage == "All commits have already been processed"

UniqueViolationMessage ==
  "duplicate key value violates unique constraint \"processed_commits_hash_unique\""

DeadlockMessage == "deadlock detected"

InsertFailedMessage == "insert failed"

EmptyArrayMessage == "inArray requires at least one value"

DatabaseFailed(message) == "Database operation failed: " \o message

\* ------------------------------------------------------------------- state

VARIABLES
  handler,       \* the submit handler deployed: "dedup" or "entries"
  db,            \* the committed rows of every table
  pc,            \* per request: "idle", "commits" (inside the transaction), "done"
  req,           \* per request: the body it was given
  tx,            \* per request: the uncommitted rows of its transaction
  newCommits,    \* per request: the commits its transaction is to insert
  storedBefore,  \* per request: the hashes committed when its transaction began
  resp,          \* per request: the response it returned
  fetchReq,      \* the last fetch-commits request and what the source host listed
  fetchResp,     \* the response to it
  genReq,        \* the last generate-changelog request and what the model did
  genResp,       \* the response to it
  page,          \* the dev page: the state of its component
  infer,         \* the last call of a keyword detector: its text and what it returned
  reader         \* the changelog page being rendered: the rows its queries returned

submitVars == <<handler, db, pc, req, tx, newCommits, storedBefore, resp>>

fetchVars == <<fetchReq, fetchResp>>

genVars == <<genReq, genResp>>

pageVars == <<page>>

inferVars == <<infer>>

readerVars == <<reader>>

vars == <<submitVars, fetchVars, genVars, pageVars, inferVars, readerVars>>

InitSubmit ==
  /\ handler \in {"dedup", "entries"}
  /\ db = EmptyTables
  /\ pc = [p \in Procs |-> "idle"]
  /\ req = [p \in Procs |-> NoRequest]
  /\ tx = [p \in Procs |-> EmptyTables]
  /\ newCommits = [p \in Procs |-> <<>>]
  /\ storedBefore = [p \in Procs |-> {}]
  /\ resp = [p \in Procs |-> NoResponse]

\* --------------------------------------------------- the submit handlers

\* A request answered without a transaction, or whose transaction threw before
\* it wrote anything.
Reject(p, r, response) ==
  /\ pc' = [pc EXCEPT ![p] = "done"]
  /\ req' = [req EXCEPT ![p] = r]
  /\ resp' = [resp EXCEPT ![p] = response]
  /\ storedBefore' = [storedBefore EXCEPT ![p] = StoredHashes(db)]
  /\ UNCHANGED <<handler, db, tx, newCommits, fetchVars, genVars, pageVars, inferVars, readerVars>>

\* A rollback that loses the ROLLBACK: the rows written so far stay.
RollbackLeaky(p, response) ==
  /\ pc' = [pc EXCEPT ![p] = "done"]
  /\ db' = MergeTables(db, tx[p])
  /\ tx' = [tx EXCEPT ![p] = EmptyTables]
  /\ resp' = [resp EXCEPT ![p] = response]
  /\ UNCHANGED <<handler, req, newCommits, storedBefore, fetchVars, genVars, pageVars, inferVars, readerVars>>

\* The callback of db.transaction threw: the transaction is rolled back and
\* the catch block answers.
Rollback(p, response) ==
  /\ pc' = [pc EXCEPT ![p] = "done"]
  /\ tx' = [tx EXCEPT ![p] = EmptyTables]
  /\ resp' = [resp EXCEPT ![p] = response]
  /\ UNCHANGED <<handler, db, req, newCommits, storedBefore, fetchVars, genVars, pageVars, inferVars, readerVars>>

\* The callback of db.transaction returned: its rows become visible together.
CommitTransaction(p, rows) ==
  /\ db' = MergeTables(db, rows)
  /\ tx' = [tx EXCEPT ![p] = EmptyTables]
  /\ pc' = [pc EXCEPT ![p] = "done"]
  /\ resp' = [resp EXCEPT ![p] = Ok]
  /\ UNCHANGED <<handler, req, newCommits, storedBefore, fetchVars, genVars, pageVars, inferVars, readerVars>>

EnterTransaction(p, r, rows, commits) ==
  /\ pc' = [pc EXCEPT ![p] = "commits"]
  /\ req' = [req EXCEPT ![p] = r]
  /\ tx' = [tx EXCEPT ![p] = rows]
  /\ newCommits' = [newCommits EXCEPT ![p] = commits]
  /\ storedBefore' = [storedBefore EXCEPT ![p] = StoredHashes(db)]
  /\ UNCHANGED <<handler, db, resp, fetchVars, genVars, pageVars, inferVars, readerVars>>

ChangelogRow(p, r, content) ==
  [id |-> p, title |-> TitleOfDate(r.date), content |-> content, type |-> r.type]

\* --- the handler with the in-transaction dedup re-check

DedupValidate(r) ==
  IF r.content = Absent \/ r.content = Some("")
    THEN Failed(400, "Valid content is required")
  ELSE IF ~r.commitsIsArray THEN Failed(400, "Commits must be an array")
  ELSE IF r.repoUrl = "" THEN Failed(400, "Valid GitHub repository URL is required")
  ELSE IF r.type \notin validChangeTypes THEN Failed(400, "Valid change type is required")
  ELSE Ok

\* existingHashes and newCommits of the transaction callback
DedupNewCommits(r, tables) ==
  LET commitHashes == {r.commits[i].hash : i \in 1..Len(r.commits)}
      existingCommits == {c \in tables.processedCommits : c.hash \in commitHashes}
      existingHashes == {c.hash : c \in existingCommits}
  IN SelectSeq(r.commits, LAMBDA commit : commit.hash \notin existingHashes)

\* Validation, the select of the already processed hashes and the insert of the
\* changelog row.
DedupBegin(p, r) ==
  /\ handler = "dedup"
  /\ pc[p] = "idle"
  /\ IF DedupValidate(r) # Ok
       THEN Reject(p, r, DedupValidate(r))
     ELSE IF Len(DedupNewCommits(r, db)) = 0
       THEN \E message \in
                 IF Len(r.commits) = 0
                   THEN {AllProcessedMessage, EmptyArrayMessage}
                   ELSE {AllProcessedMessage} :
              Reject(p, r, Failed(500, DatabaseFailed(message)))
     ELSE EnterTransaction(p, r,
            [EmptyTables EXCEPT !.changelogs = {ChangelogRow(p, r, r.content[1])}],
            DedupNewCommits(r, db))

\* --- the handler that stores entries, file changes and links

hasEntries(r) == Len(r.entries) > 0

\* A validation that lets any change type through.
EntriesValidateAnyType(r) ==
  IF ~hasEntries(r) /\ (r.content = Absent \/ r.content = Some(""))
    THEN Failed(400, "Either entries array or valid content is required")
  ELSE IF ~r.commitsIsArray THEN Failed(400, "Commits must be an array")
  ELSE IF r.repoUrl = "" THEN Failed(400, "Valid GitHub repository URL is required")
  ELSE Ok

EntriesValidate(r) ==
  IF ~hasEntries(r) /\ (r.content = Absent \/ r.content = Some(""))
    THEN Failed(400, "Either entries array or valid content is required")
  ELSE IF ~r.commitsIsArray THEN Failed(400, "Commits must be an array")
  ELSE IF r.repoUrl = "" THEN Failed(400, "Valid GitHub repository URL is required")
  ELSE IF r.type \notin validChangeTypes THEN Failed(400, "Valid change type is required")
  ELSE Ok

changelogEntriesToInsert(r) ==
  IF hasEntries(r) THEN r.entries
  ELSE LET lines == SelectSeq(Split(r.content[1], "\n"), LAMBDA line : ~IsBlank(line))
       IN [i \in 1..Len(lines) |->
             [content |-> lines[i], order |-> Some(i - 1),
              component |-> detectComponent(lines[i]),
              scope |-> detectScope(lines[i]),
              impact |-> Some(detectImpact(lines[i])),
              isTechnical |-> Some(FALSE), isUserFacing |-> Some(TRUE),
              labels |-> Absent]]

\* The row inserted for the entry at the (zero-based) index.
EntryRow(p, entry, index) ==
  [id |-> <<p, index>>, changelogId |-> p, content |-> entry.content,
   component |-> entry.component, scope |-> entry.scope,
   impact |-> OrString(entry.impact, "minor"),
   isTechnical |-> OrBoolean(entry.isTechnical, FALSE),
   isUserFacing |-> OrBoolean(entry.isUserFacing, TRUE),
   order |-> OrNumber(entry.order, index),
   labels |-> entry.labels]

\* Validation, the insert of the changelog row and of one row per entry.
EntriesBegin(p, r) ==
  /\ handler = "entries"
  /\ pc[p] = "idle"
  /\ IF EntriesValidate(r) # Ok
       THEN Reject(p, r, EntriesValidate(r))
     ELSE LET entries == changelogEntriesToInsert(r)
              content == Join([i \in 1..Len(entries) |-> entries[i].content], "\n")
          IN EnterTransaction(p, r,
               [EmptyTables EXCEPT
                  !.changelogs = {ChangelogRow(p, r, content)},
                  !.changelogEntries =
                     {EntryRow(p, entries[i], i - 1) : i \in 1..Len(entries)}],
               r.commits)

\* --- the statements of the transaction, common to both handlers

\* The commits of its array the transaction has inserted so far.
Inserted(p) == Cardinality(tx[p].processedCommits)

\* The commit the next insert into processed_commits is for.
NextCommit(p) == newCommits[p][Inserted(p) + 1]

InsertingCommits(p) == pc[p] = "commits" /\ Inserted(p) < Len(newCommits[p])

\* A hash column without the unique constraint.
UniqueViolationUnchecked(p, hash) == FALSE

\* A constraint checked against the committed rows only.
UniqueViolationCommittedOnly(p, hash) == hash \in StoredHashes(db)

\* processed_commits_hash_unique: the hash is in a committed row or in a row this
\* transaction inserted.
UniqueViolation(p, hash) == hash \in StoredHashes(db) \cup StoredHashes(tx[p])

\* The hash is in an uncommitted row of another transaction: the insert waits
\* for that transaction to end.
HeldBy(p, hash) == {q \in Procs \ {p} : hash \in StoredHashes(tx[q])}

CommitRow(p, k, commit) ==
  [id |-> <<p, k>>, hash |-> commit.hash, message |-> commit.message,
   date |-> commit.date, repoUrl |-> req[p].repoUrl, changelogId |-> p,
   stats |-> IF handler = "entries" THEN Some(commit.stats) ELSE Absent]

FileChangeRows(p, k, commit) ==
  IF handler = "entries" /\ Len(commit.files) > 0
    THEN {[id |-> <<p, k, j>>, commitId |-> <<p, k>>, path |-> commit.files[j].path,
           additions |-> commit.files[j].additions,
           deletions |-> commit.files[j].deletions,
           patch |-> commit.files[j].patch,
           component |-> commit.files[j].component] : j \in 1..Len(commit.files)}
    ELSE {}

\* The insert of one commit row and, in the entries handler, of its file changes.
InsertCommit(p) ==
  /\ InsertingCommits(p)
  /\ ~UniqueViolation(p, NextCommit(p).hash)
  /\ HeldBy(p, NextCommit(p).hash) = {}
  /\ LET k == Inserted(p) + 1
         commit == NextCommit(p)
     IN tx' = [tx EXCEPT
                 ![p].processedCommits = @ \cup {CommitRow(p, k, commit)},
                 ![p].fileChanges = @ \cup FileChangeRows(p, k, commit)]
  /\ UNCHANGED <<handler, db, pc, req, newCommits, storedBefore, resp, fetchVars, genVars, pageVars, inferVars, readerVars>>

\* The message of the response to an error thrown in the transaction: the dedup
\* handler wraps it, the entries handler passes it on.
ErrorMessage(message) == IF handler = "dedup" THEN DatabaseFailed(message) ELSE message

\* The insert of a commit row whose hash is stored already.
RejectDuplicate(p) ==
  /\ InsertingCommits(p)
  /\ UniqueViolation(p, NextCommit(p).hash)
  /\ Rollback(p, FailedAt(ErrorMessage(UniqueViolationMessage),
                          "processedCommits", Inserted(p) + 1))

\* The tables a statement of the transaction may fail to write at this point for
\* a reason of the database's (a lost connection, a full disk).
FailingTables(p) ==
  IF pc[p] # "commits" THEN {}
  ELSE IF Inserted(p) = 0 /\ Len(newCommits[p]) > 0
    THEN {"changelogs", "processedCommits"}
            \cup (IF handler = "entries" THEN {"changelogEntries"} ELSE {})
  ELSE IF Inserted(p) = 0 THEN {"changelogs"}
  ELSE (IF Inserted(p) < Len(newCommits[p]) THEN {"processedCommits"} ELSE {})
       \cup (IF handler = "entries" /\ Len(newCommits[p][Inserted(p)].files) > 0
               THEN {"fileChanges"} ELSE {})
       \cup (IF handler = "entries" /\ Inserted(p) = Len(newCommits[p])
                   /\ tx[p].changelogEntries # {}
               THEN {"entryCommitMap"} ELSE {})

\* An insert of the transaction fails.  A failed insert into file_changes is that
\* of the commit inserted last.
InsertFails(p) ==
  \E table \in FailingTables(p) :
    Rollback(p, FailedAt(ErrorMessage(InsertFailedMessage), table,
                         IF table = "processedCommits" THEN Inserted(p) + 1
                         ELSE Inserted(p)))

\* processedCommitsMap: the inserted commit row of each hash.
processedCommitsMap(p) ==
  [h \in StoredHashes(tx[p]) |->
     CHOOSE c \in tx[p].processedCommits :
       /\ c.hash = h
       /\ \A d \in tx[p].processedCommits : d.hash = h => d.id[2] <= c.id[2]]

\* Links to the first commit only.
EntryCommitLinksFirstOnly(p) ==
  LET n == Len(newCommits[p])
  IN {[id |-> <<p, entry.id[2] * n + commit.id[2]>>,
       entryId |-> entry.id, commitId |-> commit.id] :
        entry \in tx[p].changelogEntries,
        commit \in {c \in tx[p].processedCommits : c.id[2] = 1}}

\* One link per inserted entry and commit of processedCommitsMap.
EntryCommitLinks(p) ==
  LET commits == {processedCommitsMap(p)[h] : h \in DOMAIN processedCommitsMap(p)}
      n == Len(newCommits[p])
  IN {[id |-> <<p, entry.id[2] * n + commit.id[2]>>,
       entryId |-> entry.id, commitId |-> commit.id] :
        entry \in tx[p].changelogEntries, commit \in commits}

\* The rest of the transaction callback and the commit.
Finish(p) ==
  /\ pc[p] = "commits"
  /\ Inserted(p) = Len(newCommits[p])
  /\ CommitTransaction(p,
       IF handler = "entries"
         THEN [tx[p] EXCEPT !.entryCommitMap = EntryCommitLinks(p)]
         ELSE tx[p])

\* The transaction the next insert of p waits for, if any.
WaitsFor(p) ==
  IF InsertingCommits(p) /\ ~UniqueViolation(p, NextCommit(p).hash)
    THEN HeldBy(p, NextCommit(p).hash)
    ELSE {}

\* p waits, directly or through others, for a transaction that waits for p.
InWaitCycle(p) ==
  \E q \in WaitsFor(p) :
    \/ p \in WaitsFor(q)
    \/ \E r \in WaitsFor(q) : p \in WaitsFor(r)

\* The database's deadlock detector ends one transaction of a cycle of waits.
DeadlockAbort(p) ==
  /\ InWaitCycle(p)
  /\ Rollback(p, FailedAt(ErrorMessage(DeadlockMessage),
                          "processedCommits", Inserted(p) + 1))

\* ------------------------------------------------- the fetch-commits handlers

\* new URL(url) for the locators of FetchUrls: an http or https locator with a
\* host parses, and its pathname ends before the query and the fragment; a
\* string without a scheme throws.
URLScheme(url) ==
  IF StartsWith(url, "https://") THEN "https://"
  ELSE IF StartsWith(url, "http://") THEN "http://"
  ELSE ""

CutAt(s, k) == IF IndexOf(s, k) = 0 THEN s ELSE SubSeq(s, 1, IndexOf(s, k) - 1)

URLParse(url) ==
  LET rest == SubSeq(url, Len(URLScheme(url)) + 1, Len(url))
      authority == CutAt(CutAt(CutAt(rest, "/"), "?"), "#")
      after == SubSeq(rest, Len(authority) + 1, Len(rest))
      pathname == IF StartsWith(after, "/") THEN CutAt(CutAt(after, "?"), "#") ELSE "/"
  IN IF URLScheme(url) = "" \/ authority = "" THEN Absent
     ELSE Some([pathname |-> pathname])

\* A parse without the check of owner and repo.
parseGitHubUrlUnchecked(url) ==
  LET parts ==
        IF StartsWith(url, "git@github.com:")
          THEN Some(Split(ReplaceFirst(ReplaceFirst(url, "git@github.com:", ""), ".git", ""), "/"))
        ELSE IF URLParse(url) = Absent THEN Absent
        ELSE LET pathname == URLParse(url)[1].pathname
             IN Some(Split(ReplaceFirst(SubSeq(pathname, 2, Len(pathname)), ".git", ""), "/"))
  IN IF parts = Absent THEN Absent
     ELSE Some([owner |-> parts[1][1],
                repo |-> IF Len(parts[1]) >= 2 THEN parts[1][2] ELSE ""])

\* parseGitHubUrl: the owner and the repo of a locator, Absent when it throws.
parseGitHubUrl(url) ==
  LET parts ==
        IF StartsWith(url, "git@github.com:")
          THEN Some(Split(ReplaceFirst(ReplaceFirst(url, "git@github.com:", ""), ".git", ""), "/"))
        ELSE IF URLParse(url) = Absent THEN Absent
        ELSE LET pathname == URLParse(url)[1].pathname
             IN Some(Split(ReplaceFirst(SubSeq(pathname, 2, Len(pathname)), ".git", ""), "/"))
  IN IF parts = Absent THEN Absent
     ELSE LET owner == parts[1][1]
              repo == IF Len(parts[1]) >= 2 THEN parts[1][2] ELSE ""
          IN IF owner = "" \/ repo = "" THEN Absent
             ELSE Some([owner |-> owner, repo |-> repo])

\* The locators a fetch request names.
FetchUrls ==
  {"", "owner/repo", "https://github.com/owner",
   "https://github.com/owner/repo", "https://github.com/owner/repo.git",
   "git@github.com:owner/repo.git"}

\* Longest list of commits the source host answers with.
MaxListed == 2

\* What listCommits can answer: distinct commits, most recent first.
ListedInputs ==
  {l \in SeqsUpTo(Hashes, MaxListed) : \A i, j \in 1..Len(l) : i # j => l[i] # l[j]}

FetchFailed(status, message) == [status |-> status, error |-> message, commits |-> <<>>]

UpstreamMessage == "Not Found"

\* processedHashes: the hashes stored with exactly the request's locator.
processedHashes(tables, repoUrl) ==
  {c.hash : c \in {d \in tables.processedCommits : d.repoUrl = repoUrl}}

\* A filter that keeps the processed commits.
FetchNewCommitsInverted(tables, repoUrl, listed) ==
  SelectSeq(listed, LAMBDA sha : sha \in processedHashes(tables, repoUrl))

\* newCommits: the listed commits whose hash is not in processedHashes.
FetchNewCommits(tables, repoUrl, listed) ==
  SelectSeq(listed, LAMBDA sha : sha \notin processedHashes(tables, repoUrl))

\* The commit of the simple handler's response.
PlainCommitOf(hash) ==
  [hash |-> hash, message |-> MessageOf(hash), date |-> "2025-03-14T09:00:00.000Z"]

\* What a fetch handler asked of the source host and of the store: the identity
\* it listed the commits of, whether it selected the processed hashes, and the
\* commits it asked the detail of, one element per call.
NoCalls == [list |-> Absent, select |-> FALSE, detail |-> <<>>]

NoFetchRequest ==
  [handler |-> "", repoUrl |-> "", listed |-> <<>>, calls |-> NoCalls, detailFailed |-> {}]

NoFetchResponse == [status |-> 0, error |-> "", commits |-> <<>>]

\* A fetch request is answered; the page then holds the response.
AnswerFetch(kind, repoUrl, listed, calls, detailFailed, response) ==
  /\ fetchResp = NoFetchResponse
  /\ fetchReq' = [handler |-> kind, repoUrl |-> repoUrl, listed |-> listed,
                  calls |-> calls, detailFailed |-> detailFailed]
  /\ fetchResp' = response
  /\ UNCHANGED <<submitVars, genVars, pageVars, inferVars, readerVars>>

\* The page takes the response and can fetch again.
ReceiveCommits ==
  /\ fetchResp # NoFetchResponse
  /\ fetchReq' = NoFetchRequest
  /\ fetchResp' = NoFetchResponse
  /\ UNCHANGED <<submitVars, genVars, pageVars, inferVars, readerVars>>

\* The calls of a handler up to the filter: none when the locator is refused,
\* listCommits alone when it throws, else listCommits and the select.
CallsBeforeDetail(repoUrl, listOk) ==
  IF repoUrl = "" \/ parseGitHubUrl(repoUrl) = Absent THEN NoCalls
  ELSE [list |-> parseGitHubUrl(repoUrl), select |-> listOk, detail |-> <<>>]

\* A handler that leaves out the commits whose detail call failed.
FetchCommitsSkipping(repoUrl, listed, listOk, failing) ==
  LET new == IF repoUrl = "" \/ parseGitHubUrl(repoUrl) = Absent \/ ~listOk THEN <<>>
             ELSE FetchNewCommits(db, repoUrl, listed)
      kept == SelectSeq(new, LAMBDA sha : sha \notin failing)
  IN AnswerFetch("enhanced", repoUrl, listed,
       [CallsBeforeDetail(repoUrl, listOk) EXCEPT !.detail = new],
       Range(new) \cap failing,
       IF repoUrl = "" THEN FetchFailed(400, "Valid GitHub repository URL is required")
       ELSE IF parseGitHubUrl(repoUrl) = Absent THEN FetchFailed(500, "Invalid GitHub URL")
       ELSE IF ~listOk THEN FetchFailed(500, UpstreamMessage)
       ELSE [status |-> 200, error |-> "",
             commits |-> [i \in 1..Len(kept) |-> CommitOf(kept[i])]])

\* The handler that fetches the detail of every new commit.  listOk tells
\* whether the source host answers listCommits, failing the commits whose
\* getCommit throws.  Promise.all starts one getCommit per new commit and
\* rejects when one of them does.
FetchCommits(repoUrl, listed, listOk, failing) ==
  LET new == IF repoUrl = "" \/ parseGitHubUrl(repoUrl) = Absent \/ ~listOk THEN <<>>
             ELSE FetchNewCommits(db, repoUrl, listed)
  IN AnswerFetch("enhanced", repoUrl, listed,
       [CallsBeforeDetail(repoUrl, listOk) EXCEPT !.detail = new],
       Range(new) \cap failing,
       IF repoUrl = "" THEN FetchFailed(400, "Valid GitHub repository URL is required")
       ELSE IF parseGitHubUrl(repoUrl) = Absent THEN FetchFailed(500, "Invalid GitHub URL")
       ELSE IF ~listOk THEN FetchFailed(500, UpstreamMessage)
       ELSE IF Range(new) \cap failing # {} THEN FetchFailed(500, UpstreamMessage)
       ELSE [status |-> 200, error |-> "",
             commits |-> [i \in 1..Len(new) |-> CommitOf(new[i])]])

\* The handler that answers with hash, message and date only.
FetchCommitsSimple(repoUrl, listed, listOk) ==
  AnswerFetch("simple", repoUrl, listed, CallsBeforeDetail(repoUrl, listOk), {},
    IF repoUrl = "" THEN FetchFailed(400, "Valid GitHub repository URL is required")
    ELSE IF parseGitHubUrl(repoUrl) = Absent THEN FetchFailed(500, "Invalid GitHub URL")
    ELSE IF ~listOk THEN FetchFailed(500, UpstreamMessage)
    ELSE LET new == FetchNewCommits(db, repoUrl, listed)
         IN [status |-> 200, error |-> "",
             commits |-> [i \in 1..Len(new) |-> PlainCommitOf(new[i])]])

InitFetch ==
  /\ fetchReq = NoFetchRequest
  /\ fetchResp = NoFetchResponse

\* The submit bodies of the runs that fetch: the usual entries, under two
\* spellings of one repository.
FetchSubmitInputs ==
  {SubmitRequest(UsualEntries, Some(ContentInput), TRUE, b, url, "Feature", DateInput) :
     b \in {<<"a1">>, <<"a2">>, <<"a1", "a2">>},
     url \in {"https://github.com/owner/repo", "https://github.com/owner/repo.git"}}

\* --------------------------------------------- the generate-changelog handlers

\* What the model call can do: fail, or answer with a choice whose content is
\* a text or missing.
LlmTexts ==
  {"**Faster search**\n\nSearch results load faster.\n",
   "- Added dark mode\n\nFixed the 'login' typo\n- Internal refactor for performance",
   "- Added dark mode\n  - Toggle in the settings menu\n\"\"\n- Fixed the \"login\" typo",
   "  "}

LlmOutcomes ==
  {[ok |-> FALSE, content |-> Absent]}
    \cup {[ok |-> TRUE, content |-> c] : c \in {Absent} \cup {Some(t) : t \in LlmTexts}}

\* A commit of a generate request: with the files of the enhanced fetch
\* handler, or without a files field as the simple fetch handler answers.
GenerateCommit(hash, detailed) ==
  [hash |-> hash, message |-> MessageOf(hash),
   files |-> IF detailed THEN Some(FilesOf(hash)) ELSE Absent]

\* A patch longer than the excerpt the prompt takes of one.
RECURSIVE Repeat(_, _)
Repeat(s, n) == IF n = 0 THEN "" ELSE s \o Repeat(s, n - 1)

LongPatch == "@@ -1,6 +1,60 @@\n" \o Repeat("+  const value = 1;\n", 30)

\* A commit that changes seven files: six with a patch, one of them long, and
\* an image without one.
WideCommit ==
  [hash |-> "a3", message |-> MessageOf("a3"),
   files |-> Some(
     <<[path |-> "src/app/api/route.ts", additions |-> 3, deletions |-> 1,
        patch |-> "@@ -1 +1 @@", component |-> determineComponent("src/app/api/route.ts")],
       [path |-> "src/app/db/schema.ts", additions |-> 60, deletions |-> 6,
        patch |-> LongPatch, component |-> determineComponent("src/app/db/schema.ts")],
       [path |-> "docs/logo.png", additions |-> 0, deletions |-> 0,
        patch |-> "", component |-> determineComponent("docs/logo.png")],
       [path |-> "src/app/dev/page.tsx", additions |-> 2, deletions |-> 2,
        patch |-> "@@ -3 +3 @@", component |-> determineComponent("src/app/dev/page.tsx")],
       [path |-> "src/app/utils/github.ts", additions |-> 1, deletions |-> 0,
        patch |-> "@@ -4 +4 @@", component |-> determineComponent("src/app/utils/github.ts")],
       [path |-> "src/app/changelog/page.tsx", additions |-> 5, deletions |-> 0,
        patch |-> "@@ -5 +5 @@",
        component |-> determineComponent("src/app/changelog/page.tsx")],
       [path |-> "src/app/auth/session.ts", additions |-> 1, deletions |-> 1,
        patch |-> "@@ -6 +6 @@", component |-> determineComponent("src/app/auth/session.ts")]>>)]

\* The commits field of a generate request: not an array, or an array.
GenerateCommitInputs ==
  {Absent, Some(<<WideCommit>>)} \cup
  {Some([i \in 1..Len(b) |-> GenerateCommit(b[i], detailed)]) :
     b \in BatchInputs, detailed \in BOOLEAN}

GenerateTypeInputs == {Absent, Some("Fix")}

\* No completion: the model was not called, or the call threw.
NoCompletion == [ok |-> FALSE, content |-> Absent]

NoGenRequest ==
  [handler |-> "", commits |-> Absent, type |-> Absent, called |-> FALSE, codePatches |-> "",
   completion |-> NoCompletion]

NoGenResponse ==
  [status |-> 0, error |-> "", llm |-> "", title |-> "", type |-> "",
   changes |-> <<>>, entries |-> Absent]

\* An error response; llm tells whether the model was called and what it did.
GenerateFailed(status, message, llm) ==
  [status |-> status, error |-> message, llm |-> llm, title |-> "", type |-> "",
   changes |-> <<>>, entries |-> Absent]

Generated(type, llm, changes, entries) ==
  [status |-> 200, error |-> "", llm |-> llm, title |-> TitleOfDate(DateInput),
   type |-> OrString(type, "Feature"), changes |-> changes, entries |-> entries]

LlmState(outcome) == IF outcome.ok THEN "answered" ELSE "failed"

RECURSIVE Flatten(_)
Flatten(lists) == IF Len(lists) = 0 THEN <<>> ELSE Head(lists) \o Flatten(Tail(lists))

\* commits.flatMap(commit => commit.files || [])
allFiles(commits) ==
  Flatten([i \in 1..Len(commits) |->
             IF commits[i].files = Absent THEN <<>> ELSE commits[i].files[1]])

\* line.replace(/['"]/g, '')
RECURSIVE RemoveQuotes(_)
RemoveQuotes(s) ==
  IF Len(s) = 0 THEN s
  ELSE IF SubSeq(s, 1, 1) \in {"'", "\""} THEN RemoveQuotes(SubSeq(s, 2, Len(s)))
  ELSE SubSeq(s, 1, 1) \o RemoveQuotes(SubSeq(s, 2, Len(s)))

\* content?.split('\n').filter(line => line.trim()).map(...) || []
rawChanges(content) ==
  IF content = Absent THEN <<>>
  ELSE LET lines == SelectSeq(Split(content[1], "\n"), LAMBDA line : ~IsBlank(line))
       IN [i \in 1..Len(lines) |-> RemoveQuotes(lines[i])]

Bullet(change) == IF StartsWith(change, "- ") THEN change ELSE "- " \o change

\* The entry and the change of the structured handler's fallback.
mockEntry ==
  "**UI Layout Improvements**\n\nWe've adjusted the layout of several UI elements to create a more logical flow. The repositioning of elements makes the application more intuitive to navigate.\n\n**What's the Impact?**\nRelated UI elements are now grouped together for easier access\nThe most important controls are more prominently displayed"

MockEntries ==
  <<[content |-> mockEntry, order |-> 0, component |-> Some("User Experience"),
     scope |-> Some("Frontend"), impact |-> "minor", isTechnical |-> FALSE,
     isUserFacing |-> TRUE]>>

\* The changes and the entries of the bullet-list handler's fallback.
MockChanges ==
  <<"- Added support for detailed changelog entries with product-focused badges",
    "- Improved filtering of changelog entries by feature and impact",
    "- Enhanced visualization of changelog information",
    "- Fixed email notification delivery for new changelog entries">>

MockBulletEntries ==
  [i \in 1..Len(MockChanges) |->
     [content |-> MockChanges[i], order |-> i - 1,
      component |-> Some(<<"User Interface", "Filtering", "Data Visualization",
                           "Email Notifications">>[i]),
      scope |-> Some(<<"User Experience", "Reporting", "Analytics">>[((i - 1) % 3) + 1]),
      impact |-> <<"minor", "major", "patch">>[((i - 1) % 3) + 1],
      isTechnical |-> (i - 1) % 2 = 0,
      isUserFacing |-> TRUE]]

\* The longest excerpt of a patch, and the most patches, the prompt of the
\* structured handler holds.
PatchBudget == 500

PatchSamples == 5

\* file.patch ? (file.patch.length > 500 ? file.patch.substring(0, 500) + '...' : file.patch) : ''
PatchExcerpt(patch) ==
  IF Len(patch) > PatchBudget THEN SubSeq(patch, 1, PatchBudget) \o "..." ELSE patch

fileDetails(files) ==
  [i \in 1..Len(files) |->
     [path |-> files[i].path,
      changes |-> ToString(files[i].additions) \o " additions, "
                    \o ToString(files[i].deletions) \o " deletions",
      patch |-> PatchExcerpt(files[i].patch)]]

PatchBlock(f) == "--- " \o f.path \o " ---\n" \o f.patch

\* The section CODE PATCHES (samples) of the structured handler's prompt.
CodePatches(commits) ==
  LET patched == SelectSeq(fileDetails(allFiles(commits)), LAMBDA f : f.patch # "")
      samples == SubSeq(patched, 1, IF Len(patched) < PatchSamples THEN Len(patched)
                                    ELSE PatchSamples)
  IN Join([i \in 1..Len(samples) |-> PatchBlock(samples[i])], "\n\n")

\* A generate request is answered.  codePatches is the section of that name in
\* the prompt of the structured handler; the other handlers' prompts have none.
AnswerGenerate(kind, commits, type, called, outcome, response) ==
  /\ genResp = NoGenResponse
  /\ genReq' = [handler |-> kind, commits |-> commits, type |-> type, called |-> called,
                codePatches |-> IF kind = "structured" /\ called THEN CodePatches(commits[1])
                                ELSE "",
                completion |-> IF called THEN outcome ELSE NoCompletion]
  /\ genResp' = response
  /\ UNCHANGED <<submitVars, fetchVars, pageVars, inferVars, readerVars>>

\* The page takes the draft and can generate again.
ReceiveChangelog ==
  /\ genResp # NoGenResponse
  /\ genReq' = NoGenRequest
  /\ genResp' = NoGenResponse
  /\ UNCHANGED <<submitVars, fetchVars, pageVars, inferVars, readerVars>>

\* The handler that answers with one entry holding the whole generated text.
GenerateStructured(commits, type, outcome) ==
  AnswerGenerate("structured", commits, type, commits # Absent, outcome,
    IF commits = Absent THEN GenerateFailed(400, "Commits must be an array", "notCalled")
    ELSE IF outcome.ok
      THEN LET generatedContent ==
                 IF outcome.content = Absent THEN "" ELSE Trim(outcome.content[1])
           IN Generated(type, LlmState(outcome), <<generatedContent>>,
                Some(<<[content |-> generatedContent, order |-> 0,
                        component |-> detectComponentGenerate(generatedContent),
                        scope |-> detectScope(generatedContent),
                        impact |-> detectImpactGenerate(generatedContent),
                        isTechnical |-> FALSE, isUserFacing |-> TRUE]>>))
      ELSE Generated(type, LlmState(outcome), <<mockEntry>>, Some(MockEntries)))

\* The handler that answers with one entry per line of the generated text.
GenerateBullets(commits, type, outcome) ==
  AnswerGenerate("bullets", commits, type, commits # Absent, outcome,
    IF commits = Absent THEN GenerateFailed(400, "Commits must be an array", "notCalled")
    ELSE IF outcome.ok
      THEN LET raw == rawChanges(outcome.content)
               has(content, k) == Includes(ToLowerCase(content), k)
           IN Generated(type, LlmState(outcome),
                [i \in 1..Len(raw) |-> Bullet(raw[i])],
                Some([i \in 1..Len(raw) |->
                        LET content == Bullet(raw[i])
                        IN [content |-> content, order |-> i - 1,
                            component |-> detectComponentGenerate(content),
                            scope |-> detectScope(content),
                            impact |-> detectImpactGenerate(content),
                            isTechnical |-> has(content, "technical")
                                              \/ has(content, "performance"),
                            isUserFacing |-> ~has(content, "internal")
                                               /\ ~has(content, "refactor")]]))
      ELSE Generated(type, LlmState(outcome), MockChanges, Some(MockBulletEntries)))

\* The handler that answers with the lines of the generated text only.  A
\* commit without a files field makes the file walk throw before the model
\* is called.
GeneratePlain(commits, type, outcome) ==
  LET walks == commits # Absent /\ \A i \in 1..Len(commits[1]) : commits[1][i].files # Absent
  IN AnswerGenerate("plain", commits, type, walks, outcome,
       IF commits = Absent THEN GenerateFailed(400, "Commits must be an array", "notCalled")
       ELSE IF ~walks THEN GenerateFailed(500, "Failed to generate changelog", "notCalled")
       ELSE IF outcome.ok
         THEN LET raw == rawChanges(outcome.content)
              IN Generated(type, LlmState(outcome),
                   [i \in 1..Len(raw) |-> Bullet(raw[i])], Absent)
         ELSE GenerateFailed(500, "Failed to generate changelog", LlmState(outcome)))

InitGen ==
  /\ genReq = NoGenRequest
  /\ genResp = NoGenResponse

\* ------------------------------------------------------------ the dev page

\* The badges the dev page offers.
availableFeatureBadges ==
  <<"Analytics", "Authentication", "API Integration", "Content Management", "Dashboards",
    "Data Visualization", "Email Notifications", "Filtering", "Performance Optimization",
    "Reporting", "Search", "Security Features", "User Experience", "User Interface">>

\* The builds of the dev page: the one whose submit builds the entries from the
\* changes and the selected badges, and the one whose submit sends the entries of
\* the draft when the draft has any.
PageVariants == {"badges", "draftEntries"}

\* What the user can leave in an editable change.
EditTexts == {"Fixed login typo", ""}

\* Most fetches and most drafts of one visit of the page, and most edits of one
\* draft.
MaxFetches == 1

MaxDrafts == 1

MaxEdits == 1

\* The changes the user edits.
EditIndexes == {1, 2}

\* The badges selected when the user submits.
BadgeInputs == {<<>>, <<"Security Features", "Search">>}

selectedType == "Feature"

NoToast == [kind |-> "", message |-> ""]

Toast(kind, message) == [kind |-> kind, message |-> message]

\* The state of the component when the page has loaded.  fetches, drafts and
\* edits count what the user did; pending is the submit request the page awaits,
\* body what it sent; submittedDraft keeps, for each request, the draft the
\* submit read.
PageLoaded(variant) ==
  [variant |-> variant, commits |-> <<>>, changelogDraft |-> Absent, error |-> Absent,
   toast |-> NoToast, isSubmitting |-> FALSE, fetches |-> 0, drafts |-> 0, edits |-> 0,
   pending |-> "",
   body |-> NoRequest, submittedDraft |-> [p \in Procs |-> Absent]]

InitPage == page = PageLoaded("")

LoadPage(variant) ==
  /\ page.variant = ""
  /\ page' = PageLoaded(variant)
  /\ UNCHANGED <<submitVars, fetchVars, genVars, inferVars, readerVars>>

\* err instanceof Error ? err.message : ..., of the Error thrown on !res.ok
ThrownMessage(error, default) == OrString(Some(error), default)

\* fetchCommits after the await: the page takes the response.
SetCommits ==
  /\ page.variant # ""
  /\ fetchResp # NoFetchResponse
  /\ page' =
       IF fetchResp.status # 200
         THEN LET errorMessage == ThrownMessage(fetchResp.error, "Failed to fetch commits")
              IN [page EXCEPT !.error = Some(errorMessage),
                              !.toast = Toast("error", errorMessage),
                              !.fetches = @ + 1]
         ELSE [page EXCEPT
                 !.error = Absent,
                 !.fetches = @ + 1,
                 !.commits = fetchResp.commits,
                 !.toast =
                    IF Len(fetchResp.commits) = 0
                      THEN Toast("info", "No new commits found to process")
                      ELSE Toast("success", "Found " \o ToString(Len(fetchResp.commits))
                                              \o " new commits to process")]
  /\ fetchReq' = NoFetchRequest
  /\ fetchResp' = NoFetchResponse
  /\ UNCHANGED <<submitVars, genVars, inferVars, readerVars>>

\* The commits of the body of the page's generate request.
GenerateCommitsOf(commits) ==
  [i \in 1..Len(commits) |->
     [hash |-> commits[i].hash, message |-> commits[i].message,
      files |-> IF "files" \in DOMAIN commits[i] THEN Some(commits[i].files) ELSE Absent]]

\* generateChangelog after the await: the page takes the draft.
SetChangelogDraft ==
  /\ page.variant # ""
  /\ genResp # NoGenResponse
  /\ page' =
       IF genResp.status # 200
         THEN LET errorMessage == ThrownMessage(genResp.error, "Failed to generate changelog")
              IN [page EXCEPT !.error = Some(errorMessage),
                              !.toast = Toast("error", errorMessage),
                              !.drafts = @ + 1]
         ELSE [page EXCEPT
                 !.error = Absent,
                 !.drafts = @ + 1,
                 !.edits = 0,
                 !.changelogDraft =
                    Some([title |-> genResp.title, date |-> DateInput[1],
                          type |-> genResp.type, changes |-> genResp.changes,
                          entries |-> genResp.entries]),
                 !.toast = Toast("success", "Changelog generated successfully!")]
  /\ genReq' = NoGenRequest
  /\ genResp' = NoGenResponse
  /\ UNCHANGED <<submitVars, fetchVars, inferVars, readerVars>>

isIntroLine(change) ==
  /\ ~StartsWith(change, "- ")
  /\ (Includes(change, "breakdown") \/ Includes(change, "following")
        \/ Includes(change, "changes made"))

\* onBlur of an editable change: the text left in it replaces the change.
EditChange(index, textContent) ==
  /\ page.variant # ""
  /\ page.changelogDraft # Absent
  /\ page.edits < MaxEdits
  /\ index \in 1..Len(page.changelogDraft[1].changes)
  /\ LET change == page.changelogDraft[1].changes[index]
         newText ==
           IF page.variant = "draftEntries" /\ ~isIntroLine(change)
                /\ ~StartsWith(textContent, "- ")
             THEN "- " \o textContent
             ELSE textContent
     IN page' = [page EXCEPT !.changelogDraft[1].changes[index] = newText,
                             !.edits = @ + 1]
  /\ UNCHANGED <<submitVars, fetchVars, genVars, inferVars, readerVars>>

validChanges(changes) == SelectSeq(changes, LAMBDA change : ~IsBlank(change))

\* The entries of the body: built from the changes and the badges.
BadgeEntries(changes, selectedBadges) ==
  [i \in 1..Len(changes) |->
     [content |-> changes[i], order |-> Some(i - 1),
      labels |-> IF Len(selectedBadges) > 0
                   THEN Some("[\"" \o Join(selectedBadges, "\",\"") \o "\"]")
                   ELSE Absent,
      component |-> IF Len(selectedBadges) > 0 THEN Some(selectedBadges[1])
                    ELSE detectComponentPage(changes[i]),
      scope |-> Absent,
      impact |-> Some(detectImpactPage(changes[i])),
      isTechnical |-> Some(FALSE), isUserFacing |-> Some(TRUE)]]

\* The entries of the body: those of the draft as the generate handler
\* answered them, or else one per change.
DraftEntries(draft, changes) ==
  IF draft.entries # Absent
    THEN [i \in 1..Len(draft.entries[1]) |->
            LET entry == draft.entries[1][i]
            IN [content |-> entry.content, order |-> Some(entry.order),
                labels |-> Absent, component |-> entry.component,
                scope |-> entry.scope, impact |-> Some(entry.impact),
                isTechnical |-> Some(entry.isTechnical),
                isUserFacing |-> Some(entry.isUserFacing)]]
    ELSE [i \in 1..Len(changes) |->
            [content |-> changes[i], order |-> Some(i - 1), labels |-> Absent,
             component |-> Absent, scope |-> Absent, impact |-> Absent,
             isTechnical |-> Absent, isUserFacing |-> Absent]]

NoStats == [totalAdditions |-> 0, totalDeletions |-> 0, filesChanged |-> 0]

validCommits(commits) ==
  [i \in 1..Len(commits) |->
     [hash |-> commits[i].hash,
      message |-> OrString(Some(commits[i].message), "No message provided"),
      date |-> commits[i].date,
      files |-> IF "files" \in DOMAIN commits[i] THEN commits[i].files ELSE <<>>,
      stats |-> IF "stats" \in DOMAIN commits[i] THEN commits[i].stats ELSE NoStats]]

\* The body of the page's submit request.
PageBody(selectedBadges) ==
  LET draft == page.changelogDraft[1]
      changes == validChanges(draft.changes)
  IN [entries |-> IF page.variant = "badges" THEN BadgeEntries(changes, selectedBadges)
                  ELSE DraftEntries(draft, changes),
      content |-> Some(Join(changes, "\n")),
      commitsIsArray |-> TRUE,
      commits |-> validCommits(page.commits),
      repoUrl |-> RepoUrlInput,
      type |-> OrString(Some(selectedType), "Feature"),
      date |-> Some(OrString(Some(draft.date), DateInput[1]))]

\* submitChangelog up to the await: an early return with a toast, or the
\* request p is sent.
submitChangelog(p, selectedBadges) ==
  /\ pc[p] = "idle"
  /\ page' =
       IF page.changelogDraft = Absent \/ Len(page.changelogDraft[1].changes) = 0
         THEN [page EXCEPT !.toast = Toast("error", "Cannot submit empty changelog")]
       ELSE IF Len(page.commits) = 0
         THEN [page EXCEPT !.toast = Toast("error", "No commits available to submit")]
       ELSE IF Len(validChanges(page.changelogDraft[1].changes)) = 0
         THEN [page EXCEPT
                 !.error = Absent,
                 !.toast = Toast("error", "Changelog must contain at least one valid entry")]
       ELSE [page EXCEPT !.error = Absent, !.isSubmitting = TRUE, !.pending = p,
                         !.body = PageBody(selectedBadges),
                         !.submittedDraft[p] = page.changelogDraft]
  /\ UNCHANGED <<submitVars, fetchVars, genVars, inferVars, readerVars>>

\* The request the page awaits has reached no handler yet.
Sent(p) == page.pending = p /\ pc[p] = "idle"

\* A page that takes every answer for a success.
SubmitAnsweredUnchecked ==
  /\ page.pending # ""
  /\ pc[page.pending] = "done"
  /\ page' = [page EXCEPT !.commits = <<>>, !.changelogDraft = Absent,
                          !.toast = Toast("success", "Changelog submitted successfully!"),
                          !.isSubmitting = FALSE, !.pending = ""]
  /\ UNCHANGED <<submitVars, fetchVars, genVars, inferVars, readerVars>>

\* submitChangelog after the await.
SubmitAnswered ==
  /\ page.pending # ""
  /\ pc[page.pending] = "done"
  /\ page' =
       IF resp[page.pending].status = 200
         THEN [page EXCEPT !.commits = <<>>, !.changelogDraft = Absent,
                           !.toast = Toast("success", "Changelog submitted successfully!"),
                           !.isSubmitting = FALSE, !.pending = ""]
         ELSE LET errorMessage ==
                    ThrownMessage(resp[page.pending].error, "Failed to submit changelog")
              IN [page EXCEPT !.error = Some(errorMessage),
                              !.toast = Toast("error", errorMessage),
                              !.isSubmitting = FALSE, !.pending = ""]
  /\ UNCHANGED <<submitVars, fetchVars, genVars, inferVars, readerVars>>

\* ------------------------------------------------- calls of the detectors

\* The keywords of the detectors, and words that are none.
DetectWords ==
  {"analytics", "stats", "metrics", "auth", "login", "sign in", "api", "integration",
   "connect", "content", "editor", "cms", "dashboard", "visualiz", "chart", "graph",
   "email", "notification", "alert", "filter", "sort", "search", "performance", "speed",
   "optimize", "report", "export", "security", "protect", "privacy", "user experience",
   "ux", "workflow", "ui", "interface", "display",
   "major", "significant", "redesign", "overhaul", "bugfix", "typo", "minor", "fix",
   "small", "Release", "LOGIN", "Overhaul"}

\* The texts a detector is called with: one or two words, and a sentence.
DetectTexts ==
  {"", "Improved search performance"} \cup DetectWords
    \cup {a \o " " \o b : a \in DetectWords, b \in DetectWords}

\* The modules that hold a copy of the detectors.
Copies == {"submit", "generate", "page"}

NoCall == [text |-> Absent, entries |-> Absent, copy |-> "", detector |-> "", result |-> Absent]

InitInfer == infer = NoCall

\* A text reaches the code that infers the metadata.
TakeText(text) ==
  /\ infer.text = Absent
  /\ infer.entries = Absent
  /\ infer' = [NoCall EXCEPT !.text = Some(text)]
  /\ UNCHANGED <<submitVars, fetchVars, genVars, pageVars, readerVars>>

\* A call of detectComponent in one of the modules.
InferComponent(copy) ==
  /\ infer.text # Absent
  /\ infer' = [infer EXCEPT
                 !.copy = copy,
                 !.detector = "component",
                 !.result =
                    Some(CASE copy = "submit" -> detectComponent(infer.text[1])
                           [] copy = "generate" -> detectComponentGenerate(infer.text[1])
                           [] copy = "page" -> detectComponentPage(infer.text[1]))]
  /\ UNCHANGED <<submitVars, fetchVars, genVars, pageVars, readerVars>>

\* A call of detectImpact in one of the modules.
InferImpact(copy) ==
  /\ infer.text # Absent
  /\ infer' = [infer EXCEPT
                 !.copy = copy,
                 !.detector = "impact",
                 !.result =
                    Some(CASE copy = "submit" -> detectImpact(infer.text[1])
                           [] copy = "generate" -> detectImpactGenerate(infer.text[1])
                           [] copy = "page" -> detectImpactPage(infer.text[1]))]
  /\ UNCHANGED <<submitVars, fetchVars, genVars, pageVars, readerVars>>

\* -------------------------------------------- the badges of a changelog

\* JSON.parse of a labels text followed by the forEach over its value: the
\* strings of the array when the text is a JSON array of string literals,
\* Absent when JSON.parse throws a SyntaxError or the value has no forEach
\* (a JSON string, number, null or object).  Exact for texts whose string
\* literals hold no comma, quote or escape.
ParsedLabels(text) ==
  LET trimmed == Trim(text)
      inner == Trim(SubSeq(trimmed, 2, Len(trimmed) - 1))
      parts == Split(inner, ",")
      literal(part) == /\ Len(Trim(part)) >= 2
                       /\ StartsWith(Trim(part), "\"")
                       /\ EndsWith(Trim(part), "\"")
      unquoted(part) == SubSeq(Trim(part), 2, Len(Trim(part)) - 1)
  IN IF ~(Len(trimmed) >= 2 /\ StartsWith(trimmed, "[") /\ EndsWith(trimmed, "]")) THEN Absent
     ELSE IF inner = "" THEN Some(<<>>)
     ELSE IF \E i \in 1..Len(parts) : ~literal(parts[i]) THEN Absent
     ELSE Some([i \in 1..Len(parts) |-> unquoted(parts[i])])

\* allBadges.add(label): a Set keeps the order of the first insertions.
AddBadge(allBadges, label) ==
  IF label \in Range(allBadges) THEN allBadges ELSE Append(allBadges, label)

RECURSIVE AddBadges(_, _)
AddBadges(allBadges, labels) ==
  IF Len(labels) = 0 THEN allBadges
  ELSE AddBadges(AddBadge(allBadges, Head(labels)), Tail(labels))

\* A string that is neither null nor empty.
Truthy(opt) == opt # Absent /\ opt # Some("")

\* A body that adds every label and every component, without the Set.
AddEntryBadgesRepeating(allBadges, entry) ==
  IF Truthy(entry.labels) /\ ParsedLabels(entry.labels[1]) # Absent
    THEN allBadges \o ParsedLabels(entry.labels[1])[1]
  ELSE IF Truthy(entry.component) THEN Append(allBadges, entry.component[1])
  ELSE allBadges

\* The body of entries.forEach in getBadgesFromEntries.
AddEntryBadges(allBadges, entry) ==
  IF Truthy(entry.labels)
    THEN IF ParsedLabels(entry.labels[1]) # Absent
           THEN AddBadges(allBadges, ParsedLabels(entry.labels[1])[1])
         ELSE IF Truthy(entry.component) THEN AddBadge(allBadges, entry.component[1])
         ELSE allBadges
  ELSE IF Truthy(entry.component) THEN AddBadge(allBadges, entry.component[1])
  ELSE allBadges

RECURSIVE BadgesFrom(_, _)
BadgesFrom(allBadges, entries) ==
  IF Len(entries) = 0 THEN allBadges
  ELSE BadgesFrom(AddEntryBadges(allBadges, Head(entries)), Tail(entries))

\* getBadgesFromEntries: entries is Absent for null.
getBadgesFromEntries(entries) ==
  IF entries = Absent THEN <<>>
  ELSE IF Len(entries[1]) = 0 THEN <<>>
  ELSE BadgesFrom(<<>>, entries[1])

\* The entries of a changelog reach the page.
TakeEntries(entries) ==
  /\ infer.text = Absent
  /\ infer.entries = Absent
  /\ infer' = [NoCall EXCEPT !.entries = Some(entries)]
  /\ UNCHANGED <<submitVars, fetchVars, genVars, pageVars, readerVars>>

\* The page computes the badges of the changelog.
ShowBadges ==
  /\ infer.entries # Absent
  /\ infer.result = Absent
  /\ infer' = [infer EXCEPT !.detector = "badges",
                            !.result = Some(getBadgesFromEntries(infer.entries[1]))]
  /\ UNCHANGED <<submitVars, fetchVars, genVars, pageVars, readerVars>>

\* The next changelog of the page.
NextChangelog ==
  /\ infer.detector = "badges"
  /\ infer' = NoCall
  /\ UNCHANGED <<submitVars, fetchVars, genVars, pageVars, readerVars>>

\* ------------------------------------------------------ the changelog page

\* The search parameters of the page: no component, impact or scope asked
\* for, and entries of either audience.
NoFilter == [component |-> Absent, impact |-> Absent, scope |-> Absent, userFacingOnly |-> FALSE]

\* The conditions the entries query adds to the one on changelogId.
MatchesFilter(entry, filter) ==
  /\ Truthy(filter.component) => entry.component = filter.component
  /\ Truthy(filter.impact) => entry.impact = filter.impact[1]
  /\ Truthy(filter.scope) => entry.scope = filter.scope
  /\ filter.userFacingOnly => entry.isUserFacing

NotRead ==
  [pc |-> "idle", filter |-> NoFilter, logs |-> {}, entries |-> [id \in Procs |-> Absent],
   shown |-> {}]

InitReader == reader = NotRead

\* A query that also answers with the rows of transactions still open.
ReadLogsUncommitted ==
  /\ reader.pc = "idle"
  /\ reader' = [NotRead EXCEPT
                  !.pc = "entries",
                  !.logs = db.changelogs \cup UNION {tx[p].changelogs : p \in Procs}]
  /\ UNCHANGED <<submitVars, fetchVars, genVars, pageVars, inferVars>>

\* const logs = await db.select().from(changelogs): the committed rows.
ReadLogs ==
  /\ reader.pc = "idle"
  /\ reader' = [NotRead EXCEPT !.pc = "entries", !.logs = db.changelogs]
  /\ UNCHANGED <<submitVars, fetchVars, genVars, pageVars, inferVars>>

\* The page is asked for with search parameters.
ReadLogsFiltered(filter) ==
  /\ reader.pc = "idle"
  /\ reader' = [NotRead EXCEPT !.pc = "entries", !.filter = filter, !.logs = db.changelogs]
  /\ UNCHANGED <<submitVars, fetchVars, genVars, pageVars, inferVars>>

\* The changelogs whose entries query has not been answered.
Unread == {log \in reader.logs : reader.entries[log.id] = Absent}

\* One of the entries queries of Promise.all is answered.
ReadEntries(log) ==
  /\ reader.pc = "entries"
  /\ log \in Unread
  /\ reader' = [reader EXCEPT
                  !.entries[log.id] =
                     Some({e \in db.changelogEntries :
                             e.changelogId = log.id /\ MatchesFilter(e, reader.filter)})]
  /\ UNCHANGED <<submitVars, fetchVars, genVars, pageVars, inferVars>>

\* entries: entries.length > 0 ? entries : null
EntriesOrNull(rows) == IF rows = {} THEN Absent ELSE Some(rows)

\* logsWithEntries.filter(log => log.entries === null || log.entries.length > 0)
filteredLogs(logs, entries) ==
  {log \in logs :
     \/ EntriesOrNull(entries[log.id][1]) = Absent
     \/ EntriesOrNull(entries[log.id][1])[1] # {}}

\* Every query is answered: the page is rendered with the changelogs that
\* pass the filter of the logs.
Render ==
  /\ reader.pc = "entries"
  /\ Unread = {}
  /\ reader' = [reader EXCEPT !.pc = "rendered",
                              !.shown = filteredLogs(reader.logs, reader.entries)]
  /\ UNCHANGED <<submitVars, fetchVars, genVars, pageVars, inferVars>>

\* The next visitor.
Reload ==
  /\ reader.pc = "rendered"
  /\ reader' = NotRead
  /\ UNCHANGED <<submitVars, fetchVars, genVars, pageVars, inferVars>>

\* ----------------------------------------------------------- specifications

\* No other request is being handled.
Quiet(p) == \A q \in Procs \ {p} : pc[q] \in {"idle", "done"}

Init == InitSubmit /\ InitFetch /\ InitGen /\ InitPage /\ InitInfer /\ InitReader

\* One request at a time, to either handler, with failing inserts.
Next ==
  \/ \E p \in SeqProcs, r \in SubmitInputs : Quiet(p) /\ DedupBegin(p, r)
  \/ \E p \in SeqProcs, r \in SubmitInputs : Quiet(p) /\ EntriesBegin(p, r)
  \/ \E p \in SeqProcs : Quiet(p) /\ InsertCommit(p)
  \/ \E p \in SeqProcs : Quiet(p) /\ RejectDuplicate(p)
  \/ \E p \in SeqProcs : Quiet(p) /\ InsertFails(p)
  \/ \E p \in SeqProcs : Quiet(p) /\ Finish(p)

Spec == Init /\ [][Next]_vars

\* The arrays of distinct commits the source host can give to requests that
\* race.
RaceBatches ==
  {b \in SeqsUpTo(Hashes, MaxBatch) :
     Len(b) >= 1 /\ \A i, j \in 1..Len(b) : i # j => b[i] # b[j]}

RaceInputs ==
  {SubmitRequest(<<>>, Some(ContentInput), TRUE, b, RepoUrlInput, "Feature", DateInput) :
     b \in RaceBatches}

InitRace == Init /\ handler = "dedup"

\* Requests to the dedup handler whose transactions interleave statement by
\* statement.
NextRace ==
  \/ \E p \in Procs, r \in RaceInputs : DedupBegin(p, r)
  \/ \E p \in Procs : InsertCommit(p)
  \/ \E p \in Procs : RejectDuplicate(p)
  \/ \E p \in Procs : DeadlockAbort(p)
  \/ \E p \in Procs : Finish(p)

SpecRace == InitRace /\ [][NextRace]_vars

\* Requests one at a time to a submit handler, and fetches between them.
NextFetch ==
  \/ \E p \in SeqProcs, r \in FetchSubmitInputs : Quiet(p) /\ DedupBegin(p, r)
  \/ \E p \in SeqProcs, r \in FetchSubmitInputs : Quiet(p) /\ EntriesBegin(p, r)
  \/ \E p \in SeqProcs : Quiet(p) /\ InsertCommit(p)
  \/ \E p \in SeqProcs : Quiet(p) /\ RejectDuplicate(p)
  \/ \E p \in SeqProcs : Quiet(p) /\ Finish(p)
  \/ \E url \in FetchUrls, listed \in ListedInputs, listOk \in BOOLEAN :
       \E failing \in SUBSET Range(listed) :
         FetchCommits(url, listed, listOk, failing)
  \/ \E url \in FetchUrls, listed \in ListedInputs, listOk \in BOOLEAN :
       FetchCommitsSimple(url, listed, listOk)
  \/ ReceiveCommits

SpecFetch == Init /\ [][NextFetch]_vars

\* Locators of every shape the parse tells apart: no scheme, no path, one
\* segment, an empty owner or repo, a trailing slash, ".git" in either
\* segment, further segments, a query, a fragment, and the SSH form.
ParseUrls ==
  FetchUrls \cup
  {"github.com/owner/repo", "https://github.com", "https://github.com/",
   "https://github.com//repo", "https://github.com/owner/",
   "https://github.com/.git/repo", "https://github.com/owner/.git",
   "https://github.com/owner/repo/tree/main", "https://github.com/owner/repo?tab=readme",
   "https://github.com/owner?tab=repositories", "http://github.com/owner/repo#readme",
   "git@github.com:owner", "git@github.com:/repo", "git@github.com:owner/.git",
   "git@github.com:owner/repo"}

\* Fetch requests with any of these locators, to both fetch handlers.
NextParse ==
  \/ \E url \in ParseUrls, listed \in ListedInputs, listOk \in BOOLEAN,
          failing \in SUBSET Hashes :
       FetchCommits(url, listed, listOk, failing)
  \/ \E url \in ParseUrls, listed \in ListedInputs, listOk \in BOOLEAN :
       FetchCommitsSimple(url, listed, listOk)
  \/ ReceiveCommits

\* The fetch handlers are the same whichever submit handler is deployed.
InitParse == Init /\ handler = "entries"

SpecParse == InitParse /\ [][NextParse]_vars

\* Generate requests, one at a time, to the three generate handlers.
NextGen ==
  \/ \E commits \in GenerateCommitInputs, type \in GenerateTypeInputs, outcome \in LlmOutcomes :
       GenerateStructured(commits, type, outcome)
  \/ \E commits \in GenerateCommitInputs, type \in GenerateTypeInputs, outcome \in LlmOutcomes :
       GenerateBullets(commits, type, outcome)
  \/ \E commits \in GenerateCommitInputs, type \in GenerateTypeInputs, outcome \in LlmOutcomes :
       GeneratePlain(commits, type, outcome)
  \/ ReceiveChangelog

\* The generate handlers never look at the store: the runs that generate start
\* with the entries submit handler deployed.
InitGenerate == Init /\ handler = "entries"

SpecGen == InitGenerate /\ [][NextGen]_vars

\* What the source host lists, and what the model call does, in the runs of the
\* page.
PageListed == {<<"a1">>, <<"a2", "a1">>}

PageOutcomes ==
  {[ok |-> FALSE, content |-> Absent],
   [ok |-> TRUE, content |-> Some("- Added dark mode\n\nFixed the 'login' typo")]}

\* The requests of another client of the submit handler: one as the dev page
\* would send it, one whose commit carries its files with stats of zero, and
\* one that carries a date of another month and year.
OtherClient == "p3"

EarlierDate == Some("2024-12-31T23:30:00.000Z")

OtherInputs ==
  LET usual == SubmitRequest(UsualEntries, Some(ContentInput), TRUE, <<"a1">>, RepoUrlInput,
                             "Feature", DateInput)
  IN {usual, [usual EXCEPT !.commits[1].stats = NoStats], [usual EXCEPT !.date = EarlierDate]}

\* The page awaits no answer.
PageIdle ==
  /\ page.variant # ""
  /\ fetchResp = NoFetchResponse
  /\ genResp = NoGenResponse
  /\ ~page.isSubmitting

\* The dev page in front of the handlers: the user loads it, fetches, generates,
\* edits the draft and submits, one thing at a time; another client submits
\* one request of its own.
NextPage ==
  \/ \E variant \in PageVariants : LoadPage(variant)
  \/ \E listed \in PageListed, listOk \in BOOLEAN, failing \in {{}, {"a1"}} :
       PageIdle /\ page.fetches < MaxFetches
         /\ FetchCommits(RepoUrlInput, listed, listOk, failing)
  \/ \E listed \in PageListed, listOk \in BOOLEAN :
       PageIdle /\ page.fetches < MaxFetches
         /\ FetchCommitsSimple(RepoUrlInput, listed, listOk)
  \/ SetCommits
  \/ \E outcome \in PageOutcomes :
       /\ PageIdle /\ Len(page.commits) > 0 /\ page.drafts < MaxDrafts
       /\ GenerateStructured(Some(GenerateCommitsOf(page.commits)), Some(selectedType), outcome)
  \/ \E outcome \in PageOutcomes :
       /\ PageIdle /\ Len(page.commits) > 0 /\ page.drafts < MaxDrafts
       /\ GenerateBullets(Some(GenerateCommitsOf(page.commits)), Some(selectedType), outcome)
  \/ \E outcome \in PageOutcomes :
       /\ PageIdle /\ Len(page.commits) > 0 /\ page.drafts < MaxDrafts
       /\ GeneratePlain(Some(GenerateCommitsOf(page.commits)), Some(selectedType), outcome)
  \/ SetChangelogDraft
  \/ \E index \in EditIndexes, textContent \in EditTexts :
       PageIdle /\ EditChange(index, textContent)
  \/ \E p \in SeqProcs, selectedBadges \in BadgeInputs :
       PageIdle /\ Quiet(p) /\ submitChangelog(p, selectedBadges)
  \/ \E p \in SeqProcs : Quiet(p) /\ Sent(p) /\ DedupBegin(p, page.body)
  \/ \E p \in SeqProcs : Quiet(p) /\ Sent(p) /\ EntriesBegin(p, page.body)
  \/ \E r \in OtherInputs : Quiet(OtherClient) /\ DedupBegin(OtherClient, r)
  \/ \E r \in OtherInputs : Quiet(OtherClient) /\ EntriesBegin(OtherClient, r)
  \/ \E p \in Procs : Quiet(p) /\ InsertCommit(p)
  \/ \E p \in Procs : Quiet(p) /\ RejectDuplicate(p)
  \/ \E p \in Procs : Quiet(p) /\ Finish(p)
  \/ SubmitAnswered

SpecPage == Init /\ [][NextPage]_vars

\* The runs that only call detectors start with the entries submit handler
\* deployed.
InitDetect == Init /\ handler = "entries"

\* One text, and calls of the detectors of every module on it.
NextDetect ==
  \/ \E text \in DetectTexts : TakeText(text)
  \/ \E copy \in Copies : InferComponent(copy)
  \/ \E copy \in Copies : InferImpact(copy)

SpecDetect == InitDetect /\ [][NextDetect]_vars

\* The labels texts and the components of stored entries: no labels, the
\* texts JSON.stringify writes for a list of badges, and texts that are no
\* JSON array.
LabelTexts ==
  {Absent, Some(""), Some("[]"), Some("[\"Authentication\"]"),
   Some("[\"Search\",\"Authentication\"]"), Some("[\"Search\", \"Search\"]"),
   Some("Search"), Some("\"Search\""), Some("[\"Search\""), Some("[\"Search\",]"),
   Some("null")}

ComponentTexts == {Absent, Some(""), Some("Search"), Some("Dashboards")}

\* Longest list of entries of a changelog whose badges are computed.
MaxShown == 2

ShownEntries ==
  {Absent} \cup
  {Some(entries) :
     entries \in SeqsUpTo([labels : LabelTexts, component : ComponentTexts], MaxShown)}

\* The badges of one changelog after the other.
NextBadges ==
  \/ infer = NoCall /\ \E entries \in ShownEntries : TakeEntries(entries)
  \/ ShowBadges
  \/ NextChangelog

SpecBadges == InitDetect /\ [][NextBadges]_vars

\* Entries whose order values run against their places in the array.
ReorderedEntries ==
  <<[UsualEntries[1] EXCEPT !.order = Some(2)], [UsualEntries[2] EXCEPT !.order = Some(1)]>>

\* The bodies of the runs with a reader: entries in the request, entries taken
\* from the lines of the content, and entries that carry their own order.
ReadInputs ==
  {SubmitRequest(UsualEntries, Some(ContentInput), TRUE, <<"a1">>, RepoUrlInput, "Feature",
                 DateInput),
   SubmitRequest(<<>>, Some(ContentInput), TRUE, <<"a1", "a2">>, RepoUrlInput, "Fix",
                 DateInput),
   SubmitRequest(ReorderedEntries, Some(ContentInput), TRUE, <<"a2">>, RepoUrlInput, "Update",
                 DateInput)}

\* Requests one at a time to a submit handler, with failing inserts, while the
\* changelog page is rendered: its queries interleave with the statements of
\* the transactions.
NextRead ==
  \/ \E p \in SeqProcs, r \in ReadInputs : Quiet(p) /\ DedupBegin(p, r)
  \/ \E p \in SeqProcs, r \in ReadInputs : Quiet(p) /\ EntriesBegin(p, r)
  \/ \E p \in SeqProcs : Quiet(p) /\ InsertCommit(p)
  \/ \E p \in SeqProcs : Quiet(p) /\ RejectDuplicate(p)
  \/ \E p \in SeqProcs : Quiet(p) /\ InsertFails(p)
  \/ \E p \in SeqProcs : Quiet(p) /\ Finish(p)
  \/ ReadLogs
  \/ \E log \in reader.logs : ReadEntries(log)
  \/ Render
  \/ Reload

SpecRead == Init /\ [][NextRead]_vars

\* Commit arrays that name a hash more than once, alone or beside another.
RepeatBatches == {<<"a1">>, <<"a1", "a1">>, <<"a1", "a1", "a2">>, <<"a2", "a1", "a2">>}

RepeatInputs ==
  {SubmitRequest(UsualEntries, Some(ContentInput), TRUE, b, RepoUrlInput, "Feature", DateInput) :
     b \in RepeatBatches}

\* Requests one at a time, to either handler, with such arrays.
NextRepeat ==
  \/ \E p \in Procs, r \in RepeatInputs : Quiet(p) /\ DedupBegin(p, r)
  \/ \E p \in Procs, r \in RepeatInputs : Quiet(p) /\ EntriesBegin(p, r)
  \/ \E p \in Procs : Quiet(p) /\ InsertCommit(p)
  \/ \E p \in Procs : Quiet(p) /\ RejectDuplicate(p)
  \/ \E p \in Procs : Quiet(p) /\ Finish(p)

SpecRepeat == Init /\ [][NextRepeat]_vars

\* The search parameters of the runs with a filter: one parameter each.
FilterInputs ==
  {[NoFilter EXCEPT !.component = Some("Dashboards")],
   [NoFilter EXCEPT !.impact = Some("major")],
   [NoFilter EXCEPT !.scope = Some("Frontend")],
   [NoFilter EXCEPT !.userFacingOnly = TRUE]}

\* Requests one at a time to a submit handler while the changelog page is
\* rendered with search parameters.
NextFilter ==
  \/ \E p \in SeqProcs, r \in ReadInputs : Quiet(p) /\ DedupBegin(p, r)
  \/ \E p \in SeqProcs, r \in ReadInputs : Quiet(p) /\ EntriesBegin(p, r)
  \/ \E p \in SeqProcs : Quiet(p) /\ InsertCommit(p)
  \/ \E p \in SeqProcs : Quiet(p) /\ RejectDuplicate(p)
  \/ \E p \in SeqProcs : Quiet(p) /\ Finish(p)
  \/ \E filter \in FilterInputs : ReadLogsFiltered(filter)
  \/ \E log \in reader.logs : ReadEntries(log)
  \/ Render
  \/ Reload

SpecFilter == Init /\ [][NextFilter]_vars

\* ------------------------------------------------- reading the store back

\* The orderings of a finite set, as sequences.
Orderings(S) ==
  {f \in [1..Cardinality(S) -> S] : \A i, j \in 1..Cardinality(S) : i # j => f[i] # f[j]}

\* The changelog page's query of a changelog's entries, ORDER BY "order": every
\* sequence the database may answer with (rows of equal order come in any order).
EntriesOfChangelog(tables, changelogId) ==
  LET rows == {e \in tables.changelogEntries : e.changelogId = changelogId}
  IN {f \in Orderings(rows) :
        \A i, j \in 1..Cardinality(rows) : i < j => f[i].order <= f[j].order}

\* ------------------------------------------ what a request left in the store

Done(p) == pc[p] = "done"

Succeeded(p) == Done(p) /\ resp[p].status = 200

BatchHashes(p) == {req[p].commits[i].hash : i \in 1..Len(req[p].commits)}

CommitsBy(p) == {c \in db.processedCommits : c.changelogId = p}

EntriesBy(p) == {e \in db.changelogEntries : e.changelogId = p}

LinksBy(p) == {l \in db.entryCommitMap : l.id[1] = p}

NoRowsBy(tables, p) ==
  /\ \A c \in tables.changelogs : c.id # p
  /\ \A e \in tables.changelogEntries : e.changelogId # p
  /\ \A c \in tables.processedCommits : c.changelogId # p
  /\ \A f \in tables.fileChanges : f.commitId[1] # p
  /\ \A l \in tables.entryCommitMap : l.id[1] # p

\* The response did not come from an insert that failed for a reason of the
\* database's.
NoInsertFailed(p) == ~Includes(resp[p].error, InsertFailedMessage)

\* The response is the NoNewCommits outcome.
IsNoNewCommits(response) ==
  response.status # 200 /\ Includes(response.error, AllProcessedMessage)

\* -------------------------------------------------------------- the claims

\* C1: after a successful submit of a non-empty batch C, a second submit of the
\* same C inserts no row at all and is answered with the NoNewCommits error.
C1_IdempotentSubmit ==
  \A p, q \in Procs :
    ( /\ p # q
      /\ Succeeded(p)
      /\ Done(q)
      /\ resp[q].status # 400
      /\ NoInsertFailed(q)
      /\ req[q].commits = req[p].commits
      /\ Len(req[q].commits) > 0
      /\ BatchHashes(q) \subseteq storedBefore[q] )
    => (NoRowsBy(db, q) /\ IsNoNewCommits(resp[q]))

\* C2: a submit whose transaction fails at any insert leaves no row of its own
\* behind, and every step of a request other than its successful end leaves the
\* store as it was.
C2_AtomicSubmit ==
  [][\A p \in Procs :
       ((pc'[p] # pc[p] \/ tx'[p] # tx[p]) /\ resp'[p].status # 200)
       => (db' = db /\ (pc'[p] = "done" => NoRowsBy(db', p)))]_vars

\* C2 witness: the insert of the file changes of the last of two commits failed.
C2_Witness ==
  \E p \in Procs :
    /\ Done(p)
    /\ Len(req[p].commits) = 2
    /\ resp[p].stage = <<"fileChanges", 2>>
    /\ resp[p].status = 500

\* C6: every changelog row has at least one commit row referencing it.
C6_NoEmptyChangelog ==
  \A changelog \in db.changelogs :
    \E c \in db.processedCommits : c.changelogId = changelog.id

\* C7: a batch with both stored and not yet stored hashes is accepted, exactly
\* its not yet stored hashes get a commit row under the new changelog, and the
\* rows stored before stay.
C7_PartialOverlap ==
  \A p \in Procs :
    ( /\ Done(p)
      /\ resp[p].status # 400
      /\ NoInsertFailed(p)
      /\ Cardinality(BatchHashes(p)) = Len(req[p].commits)
      /\ BatchHashes(p) \cap storedBefore[p] # {}
      /\ BatchHashes(p) \ storedBefore[p] # {} )
    => /\ resp[p].status = 200
       /\ {c.hash : c \in CommitsBy(p)} = BatchHashes(p) \ storedBefore[p]
       /\ \A h \in storedBefore[p] :
            \E c \in db.processedCommits : c.hash = h /\ c.changelogId # p

\* C8: the entries of an accepted request are stored with the ordinals 0..N-1
\* and are read back, ordered by ordinal, in the order submitted.
C8_EntryOrdering ==
  \A p \in Procs :
    (Succeeded(p) /\ handler = "entries" /\ hasEntries(req[p]))
    => LET n == Len(req[p].entries)
       IN /\ Cardinality(EntriesBy(p)) = n
          /\ {e.order : e \in EntriesBy(p)} = 0..(n - 1)
          /\ \A read \in EntriesOfChangelog(db, p) :
               [i \in 1..n |-> read[i].content]
                 = [i \in 1..n |-> req[p].entries[i].content]

\* C9: the links a successful submission created are the product of its entries
\* and its commits, each pair once, and every link joins rows of one submission.
C9_EntryCommitLinks ==
  /\ \A p \in Procs :
       Succeeded(p) =>
         /\ {<<l.entryId, l.commitId>> : l \in LinksBy(p)}
              = {<<e.id, c.id>> : e \in EntriesBy(p), c \in CommitsBy(p)}
         /\ Cardinality(LinksBy(p)) = Cardinality(EntriesBy(p)) * Cardinality(CommitsBy(p))
  /\ \A l \in db.entryCommitMap :
       /\ Succeeded(l.id[1])
       /\ \E e \in EntriesBy(l.id[1]) : e.id = l.entryId
       /\ \E c \in CommitsBy(l.id[1]) : c.id = l.commitId

\* C9 witness: a stored changelog with two entries, two commits and four links.
C9_Witness ==
  \E p \in Procs :
    /\ Succeeded(p)
    /\ Cardinality(EntriesBy(p)) = 2
    /\ Cardinality(CommitsBy(p)) = 2
    /\ Cardinality(LinksBy(p)) = 4

\* The requests that were given an array with the hash.
Competing(hash) == {p \in Procs : pc[p] # "idle" /\ hash \in BatchHashes(p)}

\* The requests that stored a commit row with the hash.
Storing(hash) == {p \in Procs : \E c \in CommitsBy(p) : c.hash = hash}

HashesUnique ==
  \A c, d \in db.processedCommits : c.hash = d.hash => c = d

\* C3 as stated: no two stored commit rows share a hash, and once the
\* submissions that were given a hash have all ended, exactly one of them has
\* stored it.
C3_ExactlyOneStores ==
  /\ HashesUnique
  /\ \A h \in Hashes :
       (Cardinality(Competing(h)) >= 2 /\ \A p \in Competing(h) : Done(p))
       => Cardinality(Storing(h)) = 1

\* C3 as amended: no two stored commit rows share a hash, and of the submissions
\* that were given a hash at most one has stored it.
C3_AtMostOneStores ==
  /\ HashesUnique
  /\ \A h \in Hashes : Cardinality(Storing(h)) <= 1

\* C3 witness: two transactions were given the same hash before either had
\* committed; one committed it and the unique constraint rejected the other.
C3_Witness ==
  \E p, q \in Procs :
    /\ p # q
    /\ Succeeded(p)
    /\ Done(q)
    /\ resp[q].status = 500
    /\ resp[q].stage # NoStage
    /\ Includes(resp[q].error, UniqueViolationMessage)
    /\ \E h \in BatchHashes(q) \ storedBefore[q] : h \in {c.hash : c \in CommitsBy(p)}

\* A fetch request is answered in this step.
FetchAnswered == fetchResp = NoFetchResponse /\ fetchResp' # NoFetchResponse

\* The hashes of the commits of a fetch response, in its order.
ReturnedHashes(response) == [i \in 1..Len(response.commits) |-> response.commits[i].hash]

\* The hashes of the rows stored with the locator.
StoredFor(tables, locator) ==
  {c.hash : c \in {d \in tables.processedCommits : d.repoUrl = locator}}

\* The elements of a sequence that are not in a set, in the sequence's order.
RECURSIVE Without(_, _)
Without(listed, stored) ==
  IF Len(listed) = 0 THEN <<>>
  ELSE (IF Head(listed) \in stored THEN <<>> ELSE <<Head(listed)>>)
         \o Without(Tail(listed), stored)

C5_StoredHashAuthoritative ==
  [][FetchAnswered =>
       \A i \in 1..Len(fetchResp'.commits) :
         fetchResp'.commits[i].hash \notin StoredHashes(db)]_vars

\* C10: whenever the model call failed, the response is a success that carries
\* the fixed fallback entries of the handler.
C10_FallbackOnFailure ==
  genResp.llm = "failed" =>
    /\ genResp.status = 200
    /\ genResp.entries \in {Some(MockEntries), Some(MockBulletEntries)}

\* The draft the page's submit request p was built from.
DraftOf(p) == page.submittedDraft[p][1]

\* The request p is one the page sent, and the entries handler stored it.
StoredFromPage(p) ==
  Succeeded(p) /\ handler = "entries" /\ page.submittedDraft[p] # Absent

\* The content of the entry rows a request wrote, by position.
ContentsBy(p) == {<<e.id[2], e.content>> : e \in EntriesBy(p)}

\* C11: after generate, edits and submit on the dev page, the content of every
\* entry row the submission wrote is the text of the draft as it stood when the
\* user submitted (its non-blank changes, in order), not the generated text.
C11_PersistedAsEdited ==
  \A p \in SeqProcs :
    StoredFromPage(p) =>
      LET changes == validChanges(DraftOf(p).changes)
      IN ContentsBy(p) = {<<i - 1, changes[i]>> : i \in 1..Len(changes)}

\* The keyword groups of detectComponent, in their order.
ComponentKeywords ==
  <<<<"Analytics", {"analytics", "stats", "metrics"}>>,
    <<"Authentication", {"auth", "login", "sign in"}>>,
    <<"API Integration", {"api", "integration", "connect"}>>,
    <<"Content Management", {"content", "editor", "cms"}>>,
    <<"Dashboards", {"dashboard"}>>,
    <<"Data Visualization", {"visualiz", "chart", "graph"}>>,
    <<"Email Notifications", {"email", "notification", "alert"}>>,
    <<"Filtering", {"filter", "sort", "search"}>>,
    <<"Performance Optimization", {"performance", "speed", "optimize"}>>,
    <<"Reporting", {"report", "export"}>>,
    <<"Search", {"search"}>>,
    <<"Security Features", {"security", "protect", "privacy"}>>,
    <<"User Experience", {"user experience", "ux", "workflow"}>>,
    <<"User Interface", {"ui", "interface", "display"}>>>>

\* The groups with a keyword in the lowercased text.
MatchingGroups(text) ==
  {i \in 1..Len(ComponentKeywords) :
     \E k \in ComponentKeywords[i][2] : Includes(ToLowerCase(text), k)}

\* The category of the first matching group, if any group matches.
FirstMatch(text) ==
  IF MatchingGroups(text) = {} THEN Absent
  ELSE Some(ComponentKeywords[CHOOSE i \in MatchingGroups(text) :
                                \A j \in MatchingGroups(text) : i <= j][1])

\* C12: every call of detectComponent, in the submit handler, the generate
\* handler or the dev page, returns the category of the first keyword group in
\* the fixed order that has a keyword in the lowercased text, and no category
\* when no group has one; so the result depends on the text alone and the
\* copies agree.
C12_FirstMatch ==
  infer.detector = "component" => infer.result = Some(FirstMatch(infer.text[1]))

\* The dev page's copy was called on a text with keywords of two groups and
\* answered the earlier group.
C12_Witness ==
  /\ infer.detector = "component"
  /\ infer.copy = "page"
  /\ infer.text = Some("Improved search performance")
  /\ infer.result = Some(Some("Filtering"))

MajorKeywords == {"major", "significant", "redesign", "overhaul"}

PatchKeywords == {"bugfix", "typo", "minor fix", "small"}

HasKeyword(text, keywords) == \E k \in keywords : Includes(ToLowerCase(text), k)

\* C13: every call of detectImpact returns 'major' when a major keyword occurs
\* in the text, else 'patch' when a patch keyword occurs, else 'minor', and
\* nothing else.
C13_ImpactTotal ==
  infer.detector = "impact" =>
    /\ infer.result \in {Some("major"), Some("patch"), Some("minor")}
    /\ infer.result =
         Some(IF HasKeyword(infer.text[1], MajorKeywords) THEN "major"
              ELSE IF HasKeyword(infer.text[1], PatchKeywords) THEN "patch"
              ELSE "minor")

\* The generate handler's copy was called on a text with a major and a patch
\* keyword and answered major.
C13_Witness ==
  /\ infer.detector = "impact"
  /\ infer.copy = "generate"
  /\ infer.text = Some("typo overhaul")
  /\ infer.result = Some("major")

\* The file_changes rows of a stored commit.
FileChangesOf(commit) == {f \in db.fileChanges : f.commitId = commit.id}

RECURSIVE SumOfRows(_, _)
SumOfRows(rows, field) ==
  IF rows = {} THEN 0
  ELSE LET row == CHOOSE r \in rows : TRUE
       IN (IF field = "additions" THEN row.additions ELSE row.deletions)
          + SumOfRows(rows \ {row}, field)

\* C14: the stats stored with a commit that has file_changes rows are the sums
\* and the count of those rows, whatever stats the request carried.
C14_StatsReconcile ==
  \A commit \in db.processedCommits :
    FileChangesOf(commit) # {} =>
      commit.stats = Some([totalAdditions |-> SumOfRows(FileChangesOf(commit), "additions"),
                           totalDeletions |-> SumOfRows(FileChangesOf(commit), "deletions"),
                           filesChanged |-> Cardinality(FileChangesOf(commit))])

\* The requests answered in this step, with success and without.
NewlySucceeded == {p \in Procs : pc[p] # "done" /\ pc'[p] = "done" /\ resp'[p].status = 200}

NewlyFailed == {p \in Procs : pc[p] # "done" /\ pc'[p] = "done" /\ resp'[p].status # 200}

\* C15: every step keeps every changelog row as it is; a submission that
\* succeeds adds exactly one row, its own, and nothing else adds a row: not a
\* rejected submission, not one whose transaction is rolled back.  (The fetch
\* and generate handlers leave the whole store unchanged.)
C15_CreateOnce ==
  [][/\ db.changelogs \subseteq db'.changelogs
     /\ {row.id : row \in db'.changelogs \ db.changelogs} = NewlySucceeded
     /\ Cardinality(db'.changelogs) = Cardinality(db.changelogs) + Cardinality(NewlySucceeded)
     /\ NewlyFailed # {} => db'.changelogs = db.changelogs]_vars

\* One submission stored its changelog, another was refused, and the store
\* holds the one row.
C15_Witness ==
  \E p, q \in Procs :
    /\ Succeeded(p)
    /\ Done(q) /\ resp[q].status # 200
    /\ {row.id : row \in db.changelogs} = {p}
    /\ Cardinality(db.changelogs) = 1

\* The transaction of the request was rolled back, or never begun.
RolledBack(p) == Done(p) /\ resp[p].status # 200

\* The entry rows the transaction of a request wrote.
EntriesWrittenBy(p) ==
  IF handler = "entries"
    THEN LET entries == changelogEntriesToInsert(req[p])
         IN {EntryRow(p, entries[i], i - 1) : i \in 1..Len(entries)}
    ELSE {}

\* C16: whatever way the queries of the changelog page interleave with the
\* statements of a submission, the page holds no changelog row of a submission
\* that was rolled back, and for a changelog row of a committed submission the
\* entries query answers with exactly the entries that submission wrote.
C16_ReaderIsolation ==
  \A log \in reader.logs :
    /\ ~RolledBack(log.id)
    /\ (Succeeded(log.id) /\ reader.entries[log.id] # Absent) =>
          reader.entries[log.id][1] = EntriesWrittenBy(log.id)

\* The page was rendered with a changelog and its entries while another
\* submission had been rolled back after its changelog row was inserted.
C16_Witness ==
  /\ reader.pc = "rendered"
  /\ \E log \in reader.logs :
       /\ Succeeded(log.id)
       /\ reader.entries[log.id] # Absent
       /\ reader.entries[log.id][1] # {}
  /\ \E q \in Procs : RolledBack(q) /\ resp[q].stage # NoStage

\* TRUE when no element of the sequence occurs twice.
NoRepeat(s) == \A i, j \in 1..Len(s) : s[i] = s[j] => i = j

\* C17: when the detail call of one new commit fails, the fetch handler answers
\* with an error and no list of commits at all, and it has asked the detail of
\* every new commit once, never a second time.
C17_DetailFailureAborts ==
  (fetchReq.handler = "enhanced" /\ fetchReq.detailFailed # {}) =>
     /\ fetchResp.status = 500
     /\ fetchResp.error = UpstreamMessage
     /\ fetchResp.commits = <<>>
     /\ NoRepeat(fetchReq.calls.detail)

\* Two new commits, the detail of one of them failed and of the other succeeded.
C17_Witness ==
  /\ fetchReq.handler = "enhanced"
  /\ Len(fetchReq.calls.detail) = 2
  /\ Cardinality(fetchReq.detailFailed) = 1
  /\ fetchResp.status = 500

\* An identity with an owner and a repo, neither empty.
Complete(identity) == identity[1].owner # "" /\ identity[1].repo # ""

\* C18: for every locator, parseGitHubUrl answers with an identity whose owner
\* and repo are both non-empty or throws; the fetch handlers never list the
\* commits of an incomplete identity, and when the parse throws they answer
\* with an error, having called neither the source host nor the store.
C18_AllOrError ==
  fetchReq.handler # "" =>
    LET identity == parseGitHubUrl(fetchReq.repoUrl)
    IN /\ identity = Absent \/ Complete(identity)
       /\ fetchReq.calls.list # Absent => Complete(fetchReq.calls.list)
       /\ identity = Absent =>
            /\ fetchResp.status \in {400, 500}
            /\ fetchResp.error # ""
            /\ fetchResp.commits = <<>>
            /\ fetchReq.calls = NoCalls

\* A locator that parses as a URL with an owner and no repo was refused, with
\* commits the source host would have listed.
C18_Witness ==
  /\ fetchReq.handler = "enhanced"
  /\ URLParse(fetchReq.repoUrl) # Absent
  /\ parseGitHubUrlUnchecked(fetchReq.repoUrl)[1].owner # ""
  /\ parseGitHubUrl(fetchReq.repoUrl) = Absent
  /\ Len(fetchReq.listed) > 0
  /\ fetchResp = FetchFailed(500, "Invalid GitHub URL")

\* The dev page takes the answer to its submission in this step.
PageTakesAnswer ==
  /\ page.pending # ""
  /\ pc[page.pending] = "done"
  /\ page'.pending = ""
  /\ page'.isSubmitting = FALSE

\* C19: a submission of the dev page that is rejected because every commit of
\* its batch is already stored is answered with an outcome that is not the
\* server error of a failed database operation, and the page shows it as
\* information, not as an error.
C19_NoNewCommitsInformational ==
  [][(PageTakesAnswer /\ IsNoNewCommits(resp[page.pending])) =>
        /\ resp[page.pending].status # 500
        /\ ~StartsWith(resp[page.pending].error, DatabaseFailed(""))
        /\ page'.toast.kind = "info"
        /\ page'.error = Absent]_vars

\* The date every request of a run is processed on: the clock stands still at
\* the instant the generate handlers read with new Date().
ProcessedOn == DateInput

\* C20: the title of every changelog row is the month name and the year of the
\* date its submission was processed on, so the rows of submissions processed
\* at the same instant carry the same title whatever date their requests held.
C20_TitleFromProcessingDate ==
  \A log \in db.changelogs :
    /\ log.title = TitleOfDate(ProcessedOn)
    /\ \A other \in db.changelogs : other.title = log.title

\* The contents of a sequence of entry rows, joined as the legacy content is.
JoinedContents(rows) == Join([i \in 1..Len(rows) |-> rows[i].content], "\n")

\* C21: after a successful submission to the handler that stores entries, the
\* content of its changelog row is the contents of its entry rows joined with a
\* newline in the order of their ordinals, whichever way the database breaks
\* ties.
C21_ContentMirrorsEntries ==
  \A p \in Procs :
    (handler = "entries" /\ Succeeded(p)) =>
      \A log \in db.changelogs :
        log.id = p =>
          \A rows \in EntriesOfChangelog(db, p) : log.content = JoinedContents(rows)

\* The badges one entry stands for: its parsed labels when it has labels that
\* parse, else its component when it has one.
BadgesOfEntry(entry) ==
  IF Truthy(entry.labels) /\ ParsedLabels(entry.labels[1]) # Absent
    THEN Range(ParsedLabels(entry.labels[1])[1])
  ELSE IF Truthy(entry.component) THEN {entry.component[1]}
  ELSE {}

\* C22: getBadgesFromEntries always answers with a list; the list holds no
\* badge twice, its badges are exactly those of the entries taken together,
\* and it is empty when there are no entries.
C22_BadgeDerivation ==
  (infer.detector = "badges") =>
    /\ infer.result # Absent
    /\ NoRepeat(infer.result[1])
    /\ LET entries == IF infer.entries[1] = Absent THEN <<>> ELSE infer.entries[1][1]
       IN /\ Range(infer.result[1]) = UNION {BadgesOfEntry(entries[i]) : i \in 1..Len(entries)}
          /\ Len(entries) = 0 => infer.result[1] = <<>>

\* Two entries, one whose labels parse and name a badge twice over, one whose
\* labels do not parse and whose component is shown instead.
C22_Witness ==
  /\ infer.detector = "badges"
  /\ infer.entries[1] # Absent
  /\ \E i, j \in 1..Len(infer.entries[1][1]) :
       LET first == infer.entries[1][1][i]
           second == infer.entries[1][1][j]
       IN /\ Truthy(first.labels)
          /\ ParsedLabels(first.labels[1]) = Some(<<"Search", "Search">>)
          /\ Truthy(second.labels)
          /\ ParsedLabels(second.labels[1]) = Absent
          /\ second.component = Some("Search")
  /\ infer.result = Some(<<"Search">>)

\* C23: for every file of the commits given to the structured generate handler
\* whose patch is not empty, the prompt holds the block of that file: its whole
\* patch when that has at most 500 characters, else its first 500 characters
\* followed by "...".
C23_NoPatchDropped ==
  (genReq.handler = "structured" /\ genReq.called) =>
    LET files == allFiles(genReq.commits[1])
    IN \A i \in 1..Len(files) :
         files[i].patch # "" =>
           Includes(genReq.codePatches,
                    "--- " \o files[i].path \o " ---\n"
                      \o (IF Len(files[i].patch) <= 500 THEN files[i].patch
                          ELSE SubSeq(files[i].patch, 1, 500) \o "..."))

\* The non-blank lines of a model response.
NonBlankLines(content) == SelectSeq(Split(content, "\n"), LAMBDA line : ~IsBlank(line))

\* The text starts with one bullet marker and what follows it with none.
OneLeadingBullet(content) ==
  /\ StartsWith(content, "- ")
  /\ ~StartsWith(Trim(SubSeq(content, 3, Len(content))), "- ")

\* C24: when the bullet-list generate handler has a model response, its
\* entries are as many as the non-blank lines of the response and stand in
\* their order, the content of each holds no quote character and starts with
\* exactly one bullet marker, and the ordinals are 0..N-1.
C24_BulletExtraction ==
  ( /\ genReq.handler = "bullets"
    /\ genReq.completion.ok
    /\ genReq.completion.content # Absent
    /\ genResp.status = 200 ) =>
    LET lines == NonBlankLines(genReq.completion.content[1])
        entries == genResp.entries[1]
    IN /\ Len(entries) = Len(lines)
       /\ \A i \in 1..Len(entries) :
            /\ entries[i].order = i - 1
            /\ Includes(entries[i].content, RemoveQuotes(lines[i]))
            /\ ~Includes(entries[i].content, "'")
            /\ ~Includes(entries[i].content, "\"")
            /\ OneLeadingBullet(entries[i].content)

\* A body with neither entries nor content, or whose commits is no array, or
\* without a repoUrl, or whose type is none of the five change types.
InvalidBody(r) ==
  \/ Len(r.entries) = 0 /\ (r.content = Absent \/ r.content = Some(""))
  \/ ~r.commitsIsArray
  \/ r.repoUrl = ""
  \/ r.type \notin {"Feature", "Update", "Fix", "Breaking", "Security"}

\* C25: a submit request with an invalid body is answered at once with status
\* 400; the step that answers it leaves every table and every transaction as
\* it was, and no row of the request is in the store.
C25_ValidationWritesNothing ==
  [][\A p \in Procs :
       (pc[p] = "idle" /\ pc'[p] # "idle" /\ InvalidBody(req'[p])) =>
          /\ pc'[p] = "done"
          /\ resp'[p].status = 400
          /\ db' = db
          /\ tx' = tx
          /\ NoRowsBy(db', p)]_vars

\* A request with a change type that is none of the five was refused after
\* another request had stored its rows.
C25_Witness ==
  \E p, q \in Procs :
    /\ Succeeded(q)
    /\ CommitsBy(q) # {}
    /\ Done(p)
    /\ req[p].type = "Chore"
    /\ resp[p].status = 400
    /\ NoRowsBy(db, p)

\* A component, impact, scope or user-facing filter is set.
FilterActive(filter) == filter # NoFilter

\* C26: when the changelog page is rendered with a filter, every changelog it
\* shows has an entry that matches the filter among those its query returned.
C26_FilteredView ==
  (reader.pc = "rendered" /\ FilterActive(reader.filter)) =>
    \A log \in reader.shown :
      \E e \in reader.entries[log.id][1] : MatchesFilter(e, reader.filter)

\* The hashes the commit array of a request names more than once.
RepeatedHashes(p) ==
  {req[p].commits[i].hash : i \in {k \in 1..Len(req[p].commits) :
     \E j \in 1..Len(req[p].commits) : j # k /\ req[p].commits[j].hash = req[p].commits[k].hash}}

\* No two commit rows of the store hold the same hash.
NoHashTwice == \A c, d \in db.processedCommits : c.hash = d.hash => c = d

\* C27 as stated: the store never holds two commit rows with one hash, and a
\* request whose commit array names a hash more than once fails as a whole: it
\* is not answered with success and no row of it is in the store.
C27_RepeatedHashFails ==
  /\ NoHashTwice
  /\ \A p \in Procs :
       (Done(p) /\ resp[p].status # 400 /\ RepeatedHashes(p) # {}) =>
          (resp[p].status # 200 /\ NoRowsBy(db, p))

\* C27 amended: the store never holds two commit rows with one hash, and a
\* request fails as a whole when a hash it names more than once is among the
\* commits its transaction inserts: any such hash for the handler that stores
\* entries, one not stored beforehand for the dedup handler.
C27_RepeatedInsertFails ==
  /\ NoHashTwice
  /\ \A p \in Procs :
       ( /\ Done(p)
         /\ resp[p].status # 400
         /\ RepeatedHashes(p) # {}
         /\ (handler = "entries" \/ ~(RepeatedHashes(p) \subseteq storedBefore[p])) ) =>
          (resp[p].status # 200 /\ NoRowsBy(db, p))

\* A request that names a hash twice beside another hash, none of them stored
\* beforehand, failed at the insert of the second row of the repeated hash.
C27_Witness ==
  \E p \in Procs :
    /\ Done(p)
    /\ Len(req[p].commits) = 3
    /\ RepeatedHashes(p) # {}
    /\ storedBefore[p] = {}
    /\ resp[p].status = 500
    /\ resp[p].stage # NoStage
    /\ NoRowsBy(db, p)

\* The value the request supplies, or the default when it leaves the field out.
SuppliedOr(opt, default) == IF opt = Absent THEN default ELSE opt[1]

\* C28: for every entry of a request the entries handler stored, the stored
\* impact, isTechnical and isUserFacing are the values the request supplies, and
\* 'minor', false and true only where the request leaves the field out.
C28_DefaultsOnlyWhenOmitted ==
  \A p \in Procs :
    (handler = "entries" /\ Succeeded(p) /\ hasEntries(req[p])) =>
      \A i \in 1..Len(req[p].entries) :
        \A row \in EntriesBy(p) :
          row.id = <<p, i - 1>> =>
            /\ row.impact = SuppliedOr(req[p].entries[i].impact, "minor")
            /\ row.isTechnical = SuppliedOr(req[p].entries[i].isTechnical, FALSE)
            /\ row.isUserFacing = SuppliedOr(req[p].entries[i].isUserFacing, TRUE)

\* The categories of the keyword groups up to the one that holds "search".
UpToFiltering ==
  {"Analytics", "Authentication", "API Integration", "Content Management", "Dashboards",
   "Data Visualization", "Email Notifications", "Filtering"}

\* C29: no call of detectComponent, in any module, returns 'Search', although
\* 'Search' is one of the badges the dev page offers: a text that holds "search"
\* gets 'Filtering' or the category of an earlier group.
C29_SearchUnreachable ==
  /\ "Search" \in Range(availableFeatureBadges)
  /\ (infer.detector = "component") =>
       /\ infer.result # Some(Some("Search"))
       /\ Includes(ToLowerCase(infer.text[1]), "search") =>
            \E category \in UpToFiltering : infer.result = Some(Some(category))

\* The submit handler's copy was called on the word "search" alone and on a
\* text with "Search" in capitals, and answered 'Filtering'.
C29_Witness ==
  /\ infer.detector = "component"
  /\ infer.copy = "submit"
  /\ infer.text \in {Some("search"), Some("Overhaul search")}
  /\ infer.result = Some(Some("Filtering"))

\* ---------------------------------------------- the page across a submit

\* The request of the other client, in the runs of a submit and its retry.
ResubmitOther ==
  SubmitRequest(UsualEntries, Some(ContentInput), TRUE, <<"a1">>, RepoUrlInput, "Feature",
                DateInput)

\* The dev page submits and submits again: it loads, fetches, takes a draft,
\* edits it and submits, while another client stores a commit of its own.
NextResubmit ==
  \/ \E variant \in PageVariants : LoadPage(variant)
  \/ \E listed \in PageListed, listOk \in BOOLEAN :
       PageIdle /\ page.fetches < MaxFetches /\ Len(page.commits) = 0
         /\ FetchCommitsSimple(RepoUrlInput, listed, listOk)
  \/ SetCommits
  \/ \E outcome \in PageOutcomes :
       /\ PageIdle /\ Len(page.commits) > 0 /\ page.drafts < MaxDrafts
       /\ page.changelogDraft = Absent
       /\ GenerateBullets(Some(GenerateCommitsOf(page.commits)), Some(selectedType), outcome)
  \/ SetChangelogDraft
  \/ \E index \in EditIndexes, textContent \in EditTexts :
       PageIdle /\ EditChange(index, textContent)
  \/ \E p \in SeqProcs, selectedBadges \in BadgeInputs :
       PageIdle /\ Quiet(p) /\ submitChangelog(p, selectedBadges)
  \/ \E p \in SeqProcs : Quiet(p) /\ Sent(p) /\ DedupBegin(p, page.body)
  \/ \E p \in SeqProcs : Quiet(p) /\ Sent(p) /\ EntriesBegin(p, page.body)
  \/ Quiet(OtherClient) /\ EntriesBegin(OtherClient, ResubmitOther)
  \/ \E p \in Procs : Quiet(p) /\ InsertCommit(p)
  \/ \E p \in Procs : Quiet(p) /\ RejectDuplicate(p)
  \/ \E p \in Procs : Quiet(p) /\ Finish(p)
  \/ SubmitAnswered

SpecResubmit == Init /\ [][NextResubmit]_vars

\* A step of submitChangelog: the page changes, and neither a load, a fetch, a
\* draft nor an edit is what changed it.
SubmitStep ==
  /\ page' # page
  /\ page'.variant = page.variant
  /\ page'.fetches = page.fetches
  /\ page'.drafts = page.drafts
  /\ page'.edits = page.edits

\* The answer to the page's submit request arrives in this step.
SubmitAnswerTaken == page.pending # "" /\ page'.pending = ""

\* C30: a failed submit leaves the fetched batch and the edited draft as they
\* were and the submitting flag false again, so that the same submission can
\* be sent again; only a successful submit clears the batch and the draft, and
\* once they are cleared a submit sends no request.
C30_SubmitFrame ==
  [][SubmitStep =>
       /\ SubmitAnswerTaken =>
            /\ ~page'.isSubmitting
            /\ IF resp[page.pending].status = 200
                 THEN page'.commits = <<>> /\ page'.changelogDraft = Absent
                 ELSE /\ page'.commits = page.commits
                      /\ page'.changelogDraft = page.changelogDraft
                      /\ page'.changelogDraft = page.submittedDraft[page.pending]
                      /\ Len(page'.commits) > 0
       /\ (page'.commits # page.commits \/ page'.changelogDraft # page.changelogDraft) =>
            SubmitAnswerTaken /\ resp[page.pending].status = 200
       /\ (page.pending = "" /\ page'.pending # "") =>
            Len(page.commits) > 0 /\ page.changelogDraft # Absent]_vars

\* A submit failed and the page has sent the same draft and batch again.
C30_Witness ==
  \E p, q \in SeqProcs :
    /\ p # q
    /\ pc[p] = "done" /\ resp[p].status # 200
    /\ page.pending = q
    /\ page.submittedDraft[q] = page.submittedDraft[p]
    /\ page.body.commits # <<>>

====
